---------------------------- MODULE Spec2Model ----------------------------
(***************************************************************************)
(* Lumina (obsidian-lumina): the media layout and caching pipeline.        *)
(*                                                                         *)
(*   - the layout effect of PhotoGallery.tsx (square, justified, panorama) *)
(*     as the operator ComputeLayout, over exact rationals;                *)
(*   - the image / video-thumbnail loader of utils/imageLoader.ts with the *)
(*     decode worker of workers/imageWorker.ts and the IndexedDB store of  *)
(*     utils/imageCache.ts, one action per callback;                       *)
(*   - the gallery's decode cache, its render frame (draw) and its preload *)
(*     timers.                                                             *)
(*                                                                         *)
(* Numbers the code keeps as floating point are kept here as exact         *)
(* rationals <<n, d>> (d > 0, lowest terms); the scroll offset is kept in  *)
(* hundredths of a pixel.                                                  *)
(***************************************************************************)
EXTENDS Integers, Sequences, FiniteSets, TLC

VARIABLES
    \* ---- gallery (components/PhotoGallery.tsx) ----
    filteredImages,     \* sequence of paths, the filtered and sorted items
    settings,           \* [layout, zoom, showNames, slideshowIntervalSec]
    containerWidth,     \* px
    containerHeight,    \* px (height of gal-main, which the canvas fills)
    cache,              \* cacheRef: path -> "absent" | "loading" | "ready"
    layoutVersion,      \* bumped by every successful load callback
    layoutData,         \* sequence of rects [x, y, w, h], each a rational
    layoutRows,         \* history: the rows (index sequences) of the justified layout
    targetScroll,       \* hundredths of a px
    scrollRef,          \* hundredths of a px, eased towards targetScroll
    targetScrollX,      \* the same, horizontally (panorama modes)
    scrollRefX,
    isDraggingRef,
    isSlideshowActive,
    slideshowIndex,
    preloadTimers,      \* indices (0-based) whose preload setTimeout is armed
    seenPaths,          \* history: paths whose rect passed a frame's bounds test
    \* ---- loader (utils/imageLoader.ts, workers/imageWorker.ts) ----
    worker,             \* "null" | "live"
    workerCtorOk,       \* environment: does `new Worker(url)` succeed
    nextId,
    loads,              \* one record per loadImage / loadVideoThumbnail call
    store,              \* Persistent Cache Store: key -> "none" | "good" | "bad"
    succeeded,          \* history: paths a load of which succeeded with their
                        \* bytes in the store
    restarts,           \* number of process restarts so far
    \* ---- gallery, input handling (components/PhotoGallery.tsx) ----
    stateLoaded,        \* the load-state effect of this mount has run
    pinchZoomRef,       \* <<>> (null) | <<[initialZoom, initialDist]>> of a pinch
    isPointerDownRef,
    hasMovedRef,
    startYRef,          \* px, clientY (clientX) of the pointer-down event
    startXRef,
    startScrollRef,     \* hundredths of a px
    startScrollXRef,
    velocityRef,        \* px per ms
    isEditMode,
    selection,          \* set of paths
    lastSelectedIndexRef,   \* the anchor of a range selection, -1 if none
    lightboxOpen,
    sortBy,             \* settings.sortBy
    slideshowCountdown, \* seconds left before the slideshow starts, 0 if none
    countdownIntervalRef,   \* "null" | "armed": the countdown's setInterval
    cycleClicks,        \* history: clicks on the slideshow button so far
    countdownCancelled, \* history: a pointer-down on the canvas ended a
                        \* countdown since the last click on the button
    noteModal,          \* the add-to-note dialog is open
    lastClick,          \* history: the last click on the gallery,
                        \* [item (0-based index, -1 if none), ctrl, shift,
                        \*  seq (flips at every click)]
    savedIntervalSec,   \* slideshowIntervalSec of the settings that
                        \* saveWidgetState wrote last
    saveTimeoutRef,     \* <<>> (no timer) | <<sec>>: the debounced save is
                        \* armed, sec the slideshowIntervalSec of the settings
                        \* its closure holds
    allImages,          \* set of paths, the media files read from the vault
    showVideos,         \* settings.showVideos, the media-type filter
    \* ---- plugin data (services/bridge.ts, main.ts) ----
    pluginData,         \* the stored plugin data: [settings, widgetState],
                        \* widgetState a function from instance ids to values
    pluginSettings,     \* this.settings of the plugin, in memory
    saveCalls           \* one record per call of saveWidgetState / saveSettings

galleryVars == <<filteredImages, settings, containerWidth, containerHeight, cache,
                 layoutVersion, layoutData, layoutRows, targetScroll, scrollRef,
                 targetScrollX, scrollRefX, isDraggingRef,
                 isSlideshowActive, slideshowIndex, preloadTimers, seenPaths>>
scrollVars == <<targetScroll, scrollRef, targetScrollX, scrollRefX, isDraggingRef>>
loaderVars == <<worker, workerCtorOk, nextId, loads, store, succeeded, restarts>>
pointerVars == <<isPointerDownRef, hasMovedRef, startYRef, startXRef,
                 startScrollRef, startScrollXRef, velocityRef>>
selectVars == <<isEditMode, selection, lastSelectedIndexRef, lightboxOpen, sortBy,
                noteModal>>
slideVars == <<slideshowCountdown, countdownIntervalRef, cycleClicks,
               countdownCancelled>>
persistVars == <<savedIntervalSec, saveTimeoutRef>>
filterVars == <<allImages, showVideos>>
bridgeVars == <<pluginData, pluginSettings, saveCalls>>
inputVars == <<filterVars, bridgeVars, stateLoaded, pinchZoomRef, pointerVars, selectVars,
               slideVars, lastClick>>
uiVars == <<inputVars, persistVars>>
vars == <<galleryVars, loaderVars, uiVars>>

----------------------------------------------------------------------------
(* Exact rationals.                                                        *)

RECURSIVE Gcd(_, _)
Gcd(a, b) == IF b = 0 THEN a ELSE Gcd(b, a % b)

Abs(x) == IF x < 0 THEN -x ELSE x

Rat(n, d) ==
    LET g == Gcd(Abs(n), Abs(d))
        s == IF d < 0 THEN -1 ELSE 1
    IN  <<(s * n) \div g, (s * d) \div g>>

RInt(i) == <<i, 1>>
RAdd(a, b) == Rat(a[1] * b[2] + b[1] * a[2], a[2] * b[2])
RSub(a, b) == Rat(a[1] * b[2] - b[1] * a[2], a[2] * b[2])
RMul(a, b) == Rat(a[1] * b[1], a[2] * b[2])
RDiv(a, b) == Rat(a[1] * b[2], a[2] * b[1])
RLt(a, b) == a[1] * b[2] < b[1] * a[2]
RLe(a, b) == a[1] * b[2] <= b[1] * a[2]
RGt(a, b) == RLt(b, a)
RMax(a, b) == IF RLt(a, b) THEN b ELSE a
RFloor(a) == a[1] \div a[2]

Max(a, b) == IF a < b THEN b ELSE a
Min(a, b) == IF a < b THEN a ELSE b

RECURSIVE RSum(_, _)
\* sum of F[i] over the index sequence idx
RSum(F, idx) == IF idx = <<>> THEN RInt(0)
                ELSE RAdd(F[Head(idx)], RSum(F, Tail(idx)))

----------------------------------------------------------------------------
(* Items.                                                                  *)

GAP == 10
ZOOM_MIN == 50
ZOOM_MAX == 1000
TEXT_H == 25

\* The vault's media files, in a fixed catalogue order.
Catalogue == <<"a.png", "v.mp4", "b.jpg", "c.png", "w.webm", "d.jpg",
               "e.png", "f.jpg", "g.png", "h.jpg", "i.png", "j.jpg">>
Paths == {Catalogue[i] : i \in DOMAIN Catalogue}

\* getMediaType: by extension.
getMediaType(p) == IF p \in {"v.mp4", "w.webm"} THEN "video" ELSE "image"

\* Intrinsic pixel size of the decoded bitmap of a path (thumbnail for a video).
Dims(p) ==
    CASE p = "a.png" -> [w |-> 400, h |-> 300]
      [] p = "b.jpg" -> [w |-> 300, h |-> 300]
      [] p = "c.png" -> [w |-> 100, h |-> 200]
      [] p = "d.jpg" -> [w |-> 0, h |-> 0]
      [] p \in {"v.mp4", "w.webm"} -> [w |-> 640, h |-> 480]
      [] OTHER -> [w |-> 300, h |-> 200]

\* getAspectRatio(cached): w && h ? w / h : 1.5
getAspectRatio(p) ==
    LET d == Dims(p)
    IN  IF d.w # 0 /\ d.h # 0 THEN Rat(d.w, d.h) ELSE Rat(3, 2)


----------------------------------------------------------------------------
(* Layout effect (PhotoGallery.tsx, useLayoutEffect).                      *)

LayoutModes == {"square", "justified", "panorama-square", "panorama-justified"}

isPanoramaLayout(st) == st.layout \in {"panorama-square", "panorama-justified"}

textH(st) == IF st.showNames THEN TEXT_H ELSE 0

\* Math.max(100, (containerHeight || 400) - 2 * GAP - (showNames ? 25 : 0))
panoramaBaseHeight(st, cH) ==
    Max(100, (IF cH = 0 THEN 400 ELSE cH) - 2 * GAP - textH(st))

\* Math.max(80, panoramaBaseHeight * (zoom / 200))
panoramaRowHeight(st, cH) ==
    RMax(RInt(80), Rat(panoramaBaseHeight(st, cH) * st.zoom, 200))

rowHeight(st, cH) ==
    IF isPanoramaLayout(st) THEN panoramaRowHeight(st, cH) ELSE RInt(st.zoom)

\* Mutant of ItemAspect: every item gets the fallback ratio.
ItemAspect_AlwaysFallback(p, c) == Rat(3, 2)

\* The aspect ratio the justified modes give an item.
ItemAspect(p, c) ==
    IF getMediaType(p) = "video" THEN Rat(16, 9)
    ELSE IF c[p] = "ready" THEN getAspectRatio(p)
    ELSE Rat(3, 2)

\* Square mode: the number of columns and the side of a cell.
SquareCols(width, rh) ==
    Max(1, RFloor(RDiv(RInt(width - GAP), RAdd(rh, RInt(GAP)))))

\* Mutant of SquareItemW: one gap too few is reserved.
SquareItemW_OneGapShort(width, cols) == Rat(width - cols * GAP, cols)

SquareItemW(width, cols) == Rat(width - (cols + 1) * GAP, cols)

SquareLayout(items, width, rh, tH) ==
    LET cols  == SquareCols(width, rh)
        itemW == SquareItemW(width, cols)
    IN  [k \in 1..Len(items) |->
            LET i   == k - 1
                col == i % cols
                row == i \div cols
            IN  [x |-> RAdd(RInt(GAP), RMul(RInt(col), RAdd(itemW, RInt(GAP)))),
                 y |-> RAdd(RInt(GAP),
                            RMul(RInt(row), RAdd(itemW, RInt(GAP + tH)))),
                 w |-> itemW,
                 h |-> itemW,
                 index |-> -1]]

RECURSIVE PanoramaFrom(_, _, _, _, _)
\* Panorama modes: one row; W[k] is the width of item k; x is the running offset.
PanoramaFrom(W, rh, k, x, acc) ==
    IF k > Len(W) THEN acc
    ELSE PanoramaFrom(W, rh, k + 1, RAdd(x, RAdd(W[k], RInt(GAP))),
                      Append(acc, [x |-> x, y |-> RInt(GAP), w |-> W[k], h |-> rh,
                                   index |-> k - 1]))

PanoramaSquareLayout(items, rh) ==
    PanoramaFrom([k \in 1..Len(items) |-> rh], rh, 1, RInt(GAP), <<>>)

PanoramaJustifiedLayout(items, c, rh) ==
    PanoramaFrom([k \in 1..Len(items) |-> RMul(rh, ItemAspect(items[k], c))],
                 rh, 1, RInt(GAP), <<>>)

\* Mutant of RowScale: the gaps between the items only, not the two outer ones.
RowScale_InnerGapsOnly(width, n, rowWidth) ==
    RDiv(RInt(width - (n - 1) * GAP), rowWidth)

\* The scale that makes a closed row of n items of total width rowWidth fill width.
RowScale(width, n, rowWidth) == RDiv(RInt(width - (n + 1) * GAP), rowWidth)

RECURSIVE PlaceRow(_, _, _, _, _)
\* Rescale (by scale) and position the items of a row, left to right from x.
PlaceRow(layout, row, scale, x, y) ==
    IF row = <<>> THEN layout
    ELSE LET k  == Head(row)
             w2 == RMul(layout[k].w, scale)
             h2 == RMul(layout[k].h, scale)
         IN  PlaceRow([layout EXCEPT ![k] = [@ EXCEPT !.w = w2, !.h = h2,
                                                      !.x = x, !.y = y]],
                      Tail(row), scale, RAdd(x, RAdd(w2, RInt(GAP))), y)

\* Does the item of width itemW close the current row?
RowIsFull(currentRowWidth, itemW, width, n) ==
    /\ RGt(RAdd(currentRowWidth, RAdd(itemW, RInt(GAP))), RInt(width - GAP))
    /\ n > 0

RECURSIVE JustifiedFrom(_, _, _, _, _, _, _)
\* Justified mode, from item k on: S = [layout, currentRow, currentRowWidth, y,
\* rows].  An item that does not fit closes the current row, which is rescaled
\* to the container width, and starts the next one.
JustifiedFrom(items, c, width, rh, tH, k, S) ==
    IF k > Len(items)
    THEN [layout |-> PlaceRow(S.layout, S.currentRow, RInt(1), RInt(GAP), S.y),
          rows   |-> Append(S.rows, S.currentRow)]
    ELSE
      LET itemW == RMul(rh, ItemAspect(items[k], c))
          item  == [x |-> RInt(0), y |-> RInt(0), w |-> itemW, h |-> rh,
                    index |-> k - 1]
      IN  IF RowIsFull(S.currentRowWidth, itemW, width, Len(S.currentRow))
          THEN LET scale == RowScale(width, Len(S.currentRow), S.currentRowWidth)
                   lay1  == PlaceRow(S.layout, S.currentRow, scale, RInt(GAP), S.y)
                   y1    == RAdd(S.y, RAdd(lay1[S.currentRow[1]].h, RInt(GAP + tH)))
               IN  JustifiedFrom(items, c, width, rh, tH, k + 1,
                       [layout          |-> Append(lay1, item),
                        currentRow      |-> <<k>>,
                        currentRowWidth |-> itemW,
                        y               |-> y1,
                        rows            |-> Append(S.rows, S.currentRow)])
          ELSE JustifiedFrom(items, c, width, rh, tH, k + 1,
                       [layout          |-> Append(S.layout, item),
                        currentRow      |-> Append(S.currentRow, k),
                        currentRowWidth |-> RAdd(S.currentRowWidth, itemW),
                        y               |-> S.y,
                        rows            |-> S.rows])

JustifiedLayout(items, c, width, rh, tH) ==
    JustifiedFrom(items, c, width, rh, tH, 1,
        [layout |-> <<>>, currentRow |-> <<>>, currentRowWidth |-> RInt(0),
         y |-> RInt(GAP), rows |-> <<>>])

\* The layout effect: [layout |-> rects, rows |-> rows of the justified mode].
ComputeLayout(items, st, c, width, cH) ==
    IF width <= 0 \/ Len(items) = 0 THEN [layout |-> <<>>, rows |-> <<>>]
    ELSE IF st.layout = "square"
    THEN [layout |-> SquareLayout(items, width, rowHeight(st, cH), textH(st)),
          rows   |-> <<>>]
    ELSE IF st.layout = "panorama-square"
    THEN [layout |-> PanoramaSquareLayout(items, rowHeight(st, cH)), rows |-> <<>>]
    ELSE IF st.layout = "panorama-justified"
    THEN [layout |-> PanoramaJustifiedLayout(items, c, rowHeight(st, cH)),
          rows   |-> <<>>]
    ELSE JustifiedLayout(items, c, width, rowHeight(st, cH), textH(st))


----------------------------------------------------------------------------
(* The loader: utils/imageLoader.ts, workers/imageWorker.ts, imageCache.ts *)

\* setTimeout(..., 15000) of tryWorker.
WorkerTimeoutMs == 15000

\* Resolution of the clock: the worker timeout is this many ticks.
TicksPerTimeout == 2
TickMs == WorkerTimeoutMs \div TicksPerTimeout

\* Largest number of loadImage / loadVideoThumbnail calls of one session, and
\* of requests posted to the worker (the cap of nextId).
MaxLoads == 2
MaxRequests == 1
\* Largest number of process restarts, and of loads of a restarted process.
MaxRestarts == 1
MaxLoadsAfterRestart == 1
LoadBudget == IF restarts = 0 THEN MaxLoads ELSE MaxLoadsAfterRestart
\* Largest number of error events one video element delivers.
MaxVideoErrors == 1

\* The paths of the vault in the sessions of Spec.
SessionPaths == {"a.png", "v.mp4"}

\* The paths the callers of loadImage ask for in the sessions of LoaderSpec.
LoaderPaths == {"a.png", "b.jpg"}

\* A store key is <<path, suffix>>; VIDEO_THUMB_SUFFIX = '#thumb'.
thumbKey(p) == <<p, "#thumb">>
StoreKey(p) == IF getMediaType(p) = "video" THEN thumbKey(p) ELSE <<p, "">>
StoreKeys == {StoreKey(p) : p \in SessionPaths \cup LoaderPaths}

\* The bytes of a blob either decode ("good") or do not ("bad").
BlobKinds == {"good", "bad"}

\* Mutant of getCachedBlob: every lookup misses.
getCachedBlob_AlwaysMiss(s, k) == "none"

\* getCachedBlob(path) when the read succeeds: row?.blob ?? null.
getCachedBlob(s, k) == s[k]

\* Mutant of AfterWrite: a rejected write is not caught.
AfterWrite_Propagates(next, failed, written) == IF written THEN next ELSE failed

\* setCachedBlob(path, blob).catch(() => {}): the stage that follows the write
\* of a blob, whether the write succeeds or is rejected.
AfterWrite(next, failed, written) == next

\* History: the outcome of a store write.
WriteOutcome(written) == IF written THEN "ok" ELSE "failed"

\* Mutant of TimeoutDue: the timeout may fire at once.
TimeoutDue_AtOnce(age) == TRUE

\* setTimeout(..., 15000): the callback runs once 15000 ms have passed.
TimeoutDue(age) == age >= WorkerTimeoutMs

\* The record of one loadImage / loadVideoThumbnail call (its closure), with the
\* worker's side of its request (w, wblob) and the history the claims read.
NewLoad(p, origin, seen, dup, st0) ==
    [path    |-> p,
     origin  |-> origin,      \* "draw" | "slide" | "preload"
     seen    |-> seen,        \* history: the item was in view in some frame
     dup     |-> dup,         \* history: started while the entry was not absent
     atStart |-> st0,         \* history: the store's entry when the call was made,
                              \* "loaded" if a load had succeeded with it stored
     id      |-> 0,           \* n of the request id `img-${n}`, 0 if none was sent
     st      |-> "new",       \* the continuation the call is waiting for;
                              \* "worker": the request is in pending, its timeout armed
     blob    |-> "none",      \* the blob loadFromBlobMain / createImageBitmap holds
     age     |-> 0,           \* ms since the request was posted, while it is pending
     w       |-> "none",      \* the worker's stage for this request
     wblob   |-> "none",
     via     |-> "none",      \* history: what invoked fallbackMain
     fbAt    |-> 0,           \* history: age at which fallbackMain was invoked
     fbCalls |-> 0,           \* history: number of calls of fallbackMain
     replied |-> FALSE,       \* history: a reply for the id reached worker.onmessage
     replyOf |-> 0,           \* history: the request (its index in loads) whose
                              \* reply invoked this call's callbacks, 0 if none
     getFail |-> FALSE,       \* history: a store lookup of this load was rejected
     fetched |-> FALSE,       \* history: the url was fetched for this load
     wrote   |-> "none",      \* history: the store write of the main thread for
                              \* this load: "none" | "ok" | "failed"
     wwrote  |-> "none",      \* history: the same, of the worker
     nLoad   |-> 0,           \* history: calls of onLoad
     nErr    |-> 0,           \* history: calls of onError
     vid     |-> "none",      \* the video element: "none" | "live" | "cleaned"
     verr    |-> 0]           \* error events the video element has delivered

\* The state a handler of the pipeline reads and writes.
Cur == [worker |-> worker, nextId |-> nextId, loads |-> loads, cache |-> cache,
        store |-> store, layoutVersion |-> layoutVersion]

\* Mutant of CacheAfterError: the failed entry is left pending.
CacheAfterError_KeepsPending(c, p) == c

\* The onError callback of the gallery: cache.delete(path).
CacheAfterError(c, p) == [c EXCEPT ![p] = "absent"]

\* Mutant of onLoad: the layout version is left as it is.
onLoad_SameVersion(L, i) ==
    [L EXCEPT !.cache[L.loads[i].path] = "ready",
              !.loads[i].nLoad = @ + 1]

\* The onLoad callback: cache.set(path, img); setLayoutVersion(v => v + 1).
onLoad(L, i) ==
    [L EXCEPT !.cache[L.loads[i].path] = "ready",
              !.layoutVersion = @ + 1,
              !.loads[i].nLoad = @ + 1]

onError(L, i) ==
    [L EXCEPT !.cache = CacheAfterError(@, L.loads[i].path),
              !.loads[i].nErr = @ + 1]

\* fallbackMain(): getCachedBlob(path) is started.
fallbackMain(L, i, why) ==
    [L EXCEPT !.loads[i].st = "get",
              !.loads[i].via = why,
              !.loads[i].fbAt = L.loads[i].age,
              !.loads[i].fbCalls = @ + 1]

\* initWorker(workerUrl): if (worker) return; try { new Worker } catch { null }.
initWorker(L) ==
    IF L.worker = "null" /\ workerCtorOk THEN [L EXCEPT !.worker = "live"] ELSE L

\* Mutant of NextRequestId: the counter is not advanced.
NextRequestId_Reused(n) == IF n = 0 THEN 1 ELSE n

\* ++nextId of `img-${++nextId}`.
NextRequestId(n) == n + 1

\* pending.get(id): the index in loads of the call whose entry is stored under
\* the id (a later pending.set under the same key replaces an earlier one),
\* 0 if there is none.
PendingEntry(L, id) ==
    LET J == {j \in DOMAIN L.loads : L.loads[j].st = "worker" /\ L.loads[j].id = id}
    IN  IF J = {} THEN 0 ELSE CHOOSE j \in J : \A k \in J : k <= j

\* tryWorker(): the request is posted, its timeout armed, its entry put in pending.
tryWorker(L, i) ==
    IF L.worker = "null" THEN fallbackMain(L, i, "noworker")
    ELSE [L EXCEPT !.nextId = NextRequestId(@),
                   !.loads[i].id = NextRequestId(L.nextId),
                   !.loads[i].st = "worker",
                   !.loads[i].w = "get"]

\* loadImage(url, path, onLoad, onError, workerUrl).
loadImage(L, i) ==
    LET L1 == initWorker(L)
    IN  IF L1.worker = "live" THEN tryWorker(L1, i) ELSE fallbackMain(L1, i, "noworker")

\* loadVideoThumbnail(url, path, onLoad, onError): getCachedBlob(thumbKey).
loadVideoThumbnail(L, i) == [L EXCEPT !.loads[i].st = "vget"]

\* The request of the gallery: cache.set(path, 'loading'), then the load.
StartLoad(L, p, origin, seen) ==
    LET i  == Len(L.loads) + 1
        L1 == [L EXCEPT !.cache[p] = "loading",
                        !.loads = Append(@, NewLoad(p, origin, seen,
                                                    L.cache[p] # "absent",
                                                    IF L.store[StoreKey(p)] = "good"
                                                       /\ p \in succeeded
                                                    THEN "loaded"
                                                    ELSE L.store[StoreKey(p)]))]
    IN  IF getMediaType(p) = "video" THEN loadVideoThumbnail(L1, i)
        ELSE loadImage(L1, i)

\* Mutant of Relayout: the layout effect does not run again.
Relayout_Stale(items, st, c, width, cH) == UNCHANGED <<layoutData, layoutRows>>

\* The re-render after a change of a dependency of the layout effect.
Relayout(items, st, c, width, cH) ==
    LET r == ComputeLayout(items, st, c, width, cH)
    IN  /\ layoutData' = r.layout
        /\ layoutRows' = r.rows

\* The primed variables of a handler that ends in state L; a changed layout
\* version re-runs the layout effect.
Commit(L) ==
    /\ worker' = L.worker
    /\ nextId' = L.nextId
    /\ loads' = L.loads
    /\ cache' = L.cache
    /\ store' = L.store
    /\ succeeded' = succeeded \cup
          { L.loads[i].path : i \in
              { j \in DOMAIN L.loads :
                  /\ j \in DOMAIN loads
                  /\ L.loads[j].nLoad > loads[j].nLoad
                  /\ L.store[StoreKey(L.loads[j].path)] = "good" } }
    /\ layoutVersion' = L.layoutVersion
    /\ IF L.layoutVersion # layoutVersion
       THEN Relayout(filteredImages, settings, L.cache, containerWidth,
                     containerHeight)
       ELSE UNCHANGED <<layoutData, layoutRows>>

----------------------------------------------------------------------------
(* The gallery's initial state and the settings handlers.                  *)

\* Largest number of items of a filtered sequence in LayoutSpec.
MaxItems == 10

DEFAULT_SETTINGS ==
    [layout |-> "justified", zoom |-> 200, showNames |-> FALSE,
     slideshowIntervalSec |-> 0]

\* Container widths and heights reported by the ResizeObserver.
Widths == {5, 320, 1000}
Heights == {600}

\* Settings a previous session may have persisted: a Partial<GallerySettings>
\* ("panorama" is the legacy name of "panorama-square").
SavedSettings ==
    { [f \in {"zoom"} |-> z] : z \in {20, ZOOM_MIN, 200, ZOOM_MAX, 5000} }
    \cup { [f \in {"layout"} |-> l] : l \in LayoutModes \cup {"panorama"} }

\* The decode cache of a session in which no, every or every other item is decoded.
CachePatterns ==
    { [p \in Paths |-> "absent"],
      [p \in Paths |-> "ready"],
      [p \in Paths |-> IF p \in {"a.png", "c.png", "d.jpg", "v.mp4", "f.jpg"}
                       THEN "ready" ELSE "absent"] }

ItemSequences ==
    { SubSeq(Catalogue, 1, n) :
        n \in {m \in 0..Min(MaxItems, Len(Catalogue)) : m <= 4 \/ m = MaxItems} }

\* The ids of the widget instances that share the plugin's stored data.
WidgetIds == {"w1", "w2"}

\* The input-handling state of a freshly mounted gallery; the stored data
\* hold the value 0 for the settings and for every instance.
UiInit ==
    /\ pinchZoomRef = <<>>
    /\ isPointerDownRef = FALSE
    /\ hasMovedRef = FALSE
    /\ startYRef = 0
    /\ startXRef = 0
    /\ startScrollRef = 0
    /\ startScrollXRef = 0
    /\ velocityRef = 0
    /\ isEditMode = FALSE
    /\ selection = {}
    /\ lastSelectedIndexRef = -1
    /\ lightboxOpen = FALSE
    /\ sortBy = "mtime-desc"
    /\ slideshowCountdown = 0
    /\ countdownIntervalRef = "null"
    /\ cycleClicks = 0
    /\ countdownCancelled = FALSE
    /\ noteModal = FALSE
    /\ lastClick = [item |-> -1, ctrl |-> FALSE, shift |-> FALSE, seq |-> 0]
    /\ savedIntervalSec = settings.slideshowIntervalSec
    /\ saveTimeoutRef = <<>>
    /\ allImages = {filteredImages[k] : k \in DOMAIN filteredImages}
    /\ showVideos = TRUE
    /\ pluginData = [settings |-> 0, widgetState |-> [id \in WidgetIds |-> 0]]
    /\ pluginSettings = 0
    /\ saveCalls = <<>>

\* saveState(immediate): the save writes the settings of the render that
\* created the callback, which a setSettings of the same handler has not
\* changed yet; a timer armed before is cleared.
saveState(immediate) ==
    IF immediate
    THEN /\ savedIntervalSec' = settings.slideshowIntervalSec
         /\ saveTimeoutRef' = <<>>
    ELSE /\ saveTimeoutRef' = <<settings.slideshowIntervalSec>>
         /\ UNCHANGED savedIntervalSec

\* The debounced save fires, 400 ms after saveState(false) armed it.
saveTimerFires ==
    /\ saveTimeoutRef # <<>>
    /\ savedIntervalSec' = saveTimeoutRef[1]
    /\ saveTimeoutRef' = <<>>
    /\ UNCHANGED <<inputVars, galleryVars, loaderVars>>

LoaderInit ==
    /\ workerCtorOk \in BOOLEAN
    /\ worker = IF workerCtorOk THEN "live" ELSE "null"
    /\ nextId = 0
    /\ loads = <<>>
    /\ store = [k \in StoreKeys |-> "none"]
    /\ succeeded = {}
    /\ restarts = 0

LayoutInit ==
    /\ filteredImages \in ItemSequences
    /\ settings = DEFAULT_SETTINGS
    /\ containerWidth = 0
    /\ containerHeight = 0
    /\ cache \in CachePatterns
    /\ layoutVersion = 0
    /\ layoutData = <<>>
    /\ layoutRows = <<>>
    /\ targetScroll = 0
    /\ scrollRef = 0
    /\ targetScrollX = 0
    /\ scrollRefX = 0
    /\ isDraggingRef = FALSE
    /\ isSlideshowActive = FALSE
    /\ slideshowIndex = 0
    /\ preloadTimers = {}
    /\ seenPaths = {}
    /\ LoaderInit
    /\ stateLoaded = FALSE
    /\ UiInit

\* ResizeObserver callback: updateWidth(w).
updateWidth(w) ==
    /\ containerWidth' = w
    /\ Relayout(filteredImages, settings, cache, w, containerHeight)
    /\ UNCHANGED <<uiVars, filteredImages, settings, containerHeight, cache,
                   layoutVersion,
                   scrollVars, isSlideshowActive, slideshowIndex,
                   preloadTimers, seenPaths, loaderVars>>

\* The load-state effect: setSettings((prev) => ({ ...prev, ...loaded })).
MergeSettings(prev, saved) ==
    LET loaded == IF "layout" \in DOMAIN saved /\ saved["layout"] = "panorama"
                  THEN [saved EXCEPT !["layout"] = "panorama-square"] ELSE saved
    IN  [f \in DOMAIN prev |-> IF f \in DOMAIN loaded THEN loaded[f] ELSE prev[f]]

LoadState(saved) ==
    LET st == MergeSettings(settings, saved)
    IN  /\ ~stateLoaded
        /\ stateLoaded' = TRUE
        /\ settings' = st
        /\ Relayout(filteredImages, st, cache, containerWidth, containerHeight)
        /\ UNCHANGED <<filterVars, bridgeVars, pinchZoomRef, pointerVars, selectVars,
                       slideVars, lastClick,
                       persistVars, filteredImages, containerWidth,
                       containerHeight, cache, layoutVersion, scrollVars,
                       isSlideshowActive, slideshowIndex, preloadTimers,
                       seenPaths, loaderVars>>

\* ResizeObserver callback on gal-main: updateHeight.
updateHeight(h) ==
    /\ containerHeight' = h
    /\ Relayout(filteredImages, settings, cache, containerWidth, h)
    /\ UNCHANGED <<uiVars, filteredImages, settings, containerWidth, cache, layoutVersion,
                   scrollVars, isSlideshowActive, slideshowIndex,
                   preloadTimers, seenPaths, loaderVars>>

NextLayoutMode(l) ==
    CASE l = "justified" -> "square"
      [] l = "square" -> "panorama-square"
      [] l = "panorama-square" -> "panorama-justified"
      [] OTHER -> "justified"

cycleLayout ==
    LET st == [settings EXCEPT !.layout = NextLayoutMode(@)]
    IN  /\ settings' = st
        /\ Relayout(filteredImages, st, cache, containerWidth, containerHeight)
        /\ saveState(TRUE)
        /\ UNCHANGED <<inputVars, filteredImages, containerWidth, containerHeight, cache,
                       layoutVersion, scrollVars, isSlideshowActive,
                       slideshowIndex, preloadTimers, seenPaths, loaderVars>>

\* The filename button: showNames is toggled.
toggleFilenames ==
    LET st == [settings EXCEPT !.showNames = ~@]
    IN  /\ settings' = st
        /\ Relayout(filteredImages, st, cache, containerWidth, containerHeight)
        /\ saveState(TRUE)
        /\ UNCHANGED <<inputVars, filteredImages, containerWidth, containerHeight, cache,
                       layoutVersion, scrollVars, isSlideshowActive,
                       slideshowIndex, preloadTimers, seenPaths, loaderVars>>

LayoutNext ==
    \/ \E w \in Widths : updateWidth(w)
    \/ \E h \in Heights : updateHeight(h)
    \/ \E saved \in SavedSettings : LoadState(saved)
    \/ cycleLayout
    \/ toggleFilenames

LayoutSpec == LayoutInit /\ [][LayoutNext]_vars


----------------------------------------------------------------------------
(* The render frame and the preload timers.                                *)

\* scrollVal += (target - scrollVal) * 0.08, snapped to the target within 0.1 px;
\* both in hundredths of a px, the product rounded to the nearest hundredth.
Ease(val, target) ==
    LET d  == target - val
        v1 == val + (IF d >= 0 THEN (8 * d + 50) \div 100
                     ELSE -((8 * (-d) + 50) \div 100))
    IN  IF Abs(target - v1) < 10 THEN target ELSE v1

\* Mutant of IsVisible: the frame skips no rect.
IsVisible_Always(rc, pano, sv, sx, W, H) == TRUE

\* The bounds test of the frame's grid loop; sv, sx are the scroll offsets in
\* hundredths of a px, W and H the canvas rect.
IsVisible(rc, pano, sv, sx, W, H) ==
    LET x == IF pano THEN RSub(rc.x, Rat(sx, 100)) ELSE rc.x
        y == IF pano THEN rc.y ELSE RSub(rc.y, Rat(sv, 100))
    IN  IF pano
        THEN ~(RLt(RAdd(RAdd(x, rc.w), RInt(30)), RInt(0)) \/ RGt(x, RInt(W)))
        ELSE ~(RLt(RAdd(RAdd(y, rc.h), RInt(30)), RInt(0)) \/ RGt(y, RInt(H)))

\* History: the rect, drawn at its scrolled position, reaches into the canvas
\* or into the 30 px above (left of) it.
InViewport(rc, sv, sx) ==
    IF isPanoramaLayout(settings)
    THEN /\ RLe(RInt(-30), RAdd(RSub(rc.x, Rat(sx, 100)), rc.w))
         /\ RLe(RSub(rc.x, Rat(sx, 100)), RInt(containerWidth))
    ELSE /\ RLe(RInt(-30), RAdd(RSub(rc.y, Rat(sv, 100)), rc.h))
         /\ RLe(RSub(rc.y, Rat(sv, 100)), RInt(containerHeight))

\* layoutData.forEach of the frame, from rect k on: a rect that passes the
\* bounds test and has no cache entry is marked 'loading' and its load started.
RECURSIVE DrawGrid(_, _, _, _)
DrawGrid(L, k, sv, sx) ==
    IF k > Len(layoutData) THEN L
    ELSE IF \/ ~IsVisible(layoutData[k], isPanoramaLayout(settings), sv, sx,
                          containerWidth, containerHeight)
            \/ k > Len(filteredImages)
         THEN DrawGrid(L, k + 1, sv, sx)
         ELSE LET p == filteredImages[k]
              IN  IF L.cache[p] = "absent"
                  THEN DrawGrid(StartLoad(L, p, "draw",
                                          InViewport(layoutData[k], sv, sx)),
                                k + 1, sv, sx)
                  ELSE DrawGrid(L, k + 1, sv, sx)

isGif(p) == p = "k.gif"

\* The slideshow branch of the frame: only the current slide is drawn, and it
\* is loaded if it is a still image without a cache entry.
DrawSlide(L) ==
    LET idx == Min(slideshowIndex, Len(filteredImages) - 1)
        p   == filteredImages[idx + 1]
    IN  IF getMediaType(p) = "video" \/ isGif(p) THEN L
        ELSE IF L.cache[p] = "absent"
             THEN StartLoad(L, p, "slide", p \in seenPaths)
             ELSE L

\* History: the paths of the rects in view in a frame.
FramePaths(sv, sx) ==
    { filteredImages[k] : k \in
        { j \in 1..Min(Len(layoutData), Len(filteredImages)) :
            InViewport(layoutData[j], sv, sx) } }

\* One requestAnimationFrame callback: draw().
DrawFrame ==
    /\ containerWidth # 0
    /\ LET pano  == isPanoramaLayout(settings)
           sv    == IF ~isDraggingRef /\ ~pano THEN Ease(scrollRef, targetScroll)
                    ELSE scrollRef
           sx    == IF ~isDraggingRef /\ pano THEN Ease(scrollRefX, targetScrollX)
                    ELSE scrollRefX
           slide == isSlideshowActive /\ Len(filteredImages) > 0
           L     == IF slide THEN DrawSlide(Cur) ELSE DrawGrid(Cur, 1, sv, sx)
       IN  /\ Len(L.loads) <= LoadBudget
           /\ L.nextId <= MaxRequests
           /\ scrollRef' = sv
           /\ scrollRefX' = sx
           /\ seenPaths' = IF slide THEN seenPaths
                           ELSE seenPaths \cup FramePaths(sv, sx)
           /\ Commit(L)
    /\ UNCHANGED <<uiVars, filteredImages, settings, containerWidth, containerHeight,
                   targetScroll, targetScrollX, isDraggingRef, isSlideshowActive,
                   slideshowIndex, preloadTimers, workerCtorOk, restarts>>

BATCH == 3
DELAY_MS == 50
PreloadDelay(i) == (i \div BATCH) * DELAY_MS

\* Mutant of PreloadHasEntry: the timer does not look at the cache again.
PreloadHasEntry_NoRecheck(c, p) == FALSE

\* if (cache.get(imgData.path)) return;  in the timer's callback.
PreloadHasEntry(c, p) == c[p] # "absent"

\* The setTimeout callback of the preload effect for item i (0-based); timers
\* of a shorter delay fire first.
PreloadTimer(i) ==
    /\ i \in preloadTimers
    /\ \A j \in preloadTimers : PreloadDelay(j) >= PreloadDelay(i)
    /\ preloadTimers' = preloadTimers \ {i}
    /\ LET p == filteredImages[i + 1]
       IN  IF PreloadHasEntry(cache, p)
           THEN UNCHANGED <<worker, nextId, loads, cache, store, succeeded,
                            layoutVersion, layoutData, layoutRows>>
           ELSE /\ Len(loads) < LoadBudget
                /\ StartLoad(Cur, p, "preload", p \in seenPaths).nextId <= MaxRequests
                /\ Commit(StartLoad(Cur, p, "preload", p \in seenPaths))
    /\ UNCHANGED <<uiVars, filteredImages, settings, containerWidth, containerHeight,
                   scrollVars, isSlideshowActive, slideshowIndex, seenPaths,
                   workerCtorOk, restarts>>

----------------------------------------------------------------------------
(* The worker (workers/imageWorker.ts): self.onmessage for one request.    *)

\* Outcomes of a read of the store and of a fetch of the url.
GetOutcomes == {"settle", "reject"}
FetchOutcomes == BlobKinds \cup {"fail"}

\* getCachedBlob(path) settles in the worker: a hit is decoded, a miss fetched;
\* a rejection is caught and answered with { id, error: true }.
WorkerGet(i, res) ==
    /\ i \in DOMAIN loads
    /\ loads[i].w = "get"
    /\ LET r == loads[i]
           b == getCachedBlob(store, StoreKey(r.path))
       IN  loads' = [loads EXCEPT ![i] =
              IF res = "reject" THEN [r EXCEPT !.w = "msg_error", !.getFail = TRUE]
              ELSE IF b # "none" THEN [r EXCEPT !.w = "decode", !.wblob = b]
              ELSE [r EXCEPT !.w = "fetch", !.fetched = TRUE]]
    /\ UNCHANGED <<uiVars, galleryVars, worker, workerCtorOk, nextId, store,
                   succeeded, restarts>>

\* fetch(url) and r.blob() settle in the worker; the blob is written to the
\* store (the write may fail silently) and then handed to createImageBitmap.
WorkerFetch(i, res, written) ==
    /\ i \in DOMAIN loads
    /\ loads[i].w = "fetch"
    /\ res = "fail" => written = FALSE
    /\ LET r == loads[i]
       IN  IF res = "fail"
           THEN /\ loads' = [loads EXCEPT ![i].w = "msg_error"]
                /\ store' = store
           ELSE /\ loads' = [loads EXCEPT
                              ![i].w = AfterWrite("decode", "msg_error", written),
                              ![i].wblob = res,
                              ![i].wwrote = WriteOutcome(written)]
                /\ store' = IF written THEN [store EXCEPT ![StoreKey(r.path)] = res]
                            ELSE store
    /\ UNCHANGED <<uiVars, galleryVars, worker, workerCtorOk, nextId, succeeded,
                   restarts>>

\* createImageBitmap(blob) settles in the worker: { id, bitmap } is posted, or
\* the catch posts { id, error: true }.
WorkerDecode(i) ==
    /\ i \in DOMAIN loads
    /\ loads[i].w = "decode"
    /\ loads' = [loads EXCEPT ![i].w = IF loads[i].wblob = "good" THEN "msg_bitmap"
                                       ELSE "msg_error",
                              ![i].wblob = "none"]
    /\ UNCHANGED <<uiVars, galleryVars, worker, workerCtorOk, nextId, store,
                   succeeded, restarts>>

\* A message { id } with neither bitmap nor error in place of the reply to a
\* decode; the type of worker.onmessage's event data allows it.
WorkerReplyBare(i) ==
    /\ i \in DOMAIN loads
    /\ loads[i].w = "decode"
    /\ loads' = [loads EXCEPT ![i].w = "msg_bare", ![i].wblob = "none"]
    /\ UNCHANGED <<uiVars, galleryVars, worker, workerCtorOk, nextId, store,
                   succeeded, restarts>>

----------------------------------------------------------------------------
(* The loader's handlers on the main thread (utils/imageLoader.ts).        *)

\* worker.onmessage for the reply to request i, which carries the id of that
\* request: a reply whose id is not in pending is dropped; otherwise
\* clearTimeout, pending.delete, and the callback of the entry found.
OnWorkerMessage(i) ==
    /\ i \in DOMAIN loads
    /\ loads[i].w \in {"msg_bitmap", "msg_error", "msg_bare"}
    /\ LET m  == loads[i].w
           j  == PendingEntry(Cur, loads[i].id)
           L0 == [Cur EXCEPT !.loads[i].w = "done"]
           L1 == [L0 EXCEPT !.loads[j].age = 0,
                            !.loads[j].replied = TRUE,
                            !.loads[j].replyOf = i,
                            !.loads[j].st = "end"]
       IN  IF j = 0 THEN Commit(L0)
           ELSE IF m = "msg_error" THEN Commit(fallbackMain(L1, j, "reply"))
           ELSE IF m = "msg_bitmap" THEN Commit(onLoad(L1, j))
           ELSE Commit(L1)
    /\ UNCHANGED <<uiVars, filteredImages, settings, containerWidth, containerHeight,
                   scrollVars, isSlideshowActive, slideshowIndex, preloadTimers,
                   seenPaths, workerCtorOk, restarts>>

\* The setTimeout callback of tryWorker for request i, 15000 ms after the
\* request was posted: if (cb) { pending.delete(id); fallbackMain(); }.  The
\* callback of a request that has left pending changes nothing.
WorkerTimeout(i) ==
    /\ i \in DOMAIN loads
    /\ loads[i].st = "worker"
    /\ TimeoutDue(loads[i].age)
    /\ Commit([fallbackMain(Cur, i, "timeout") EXCEPT !.loads[i].age = 0])
    /\ UNCHANGED <<uiVars, filteredImages, settings, containerWidth, containerHeight,
                   scrollVars, isSlideshowActive, slideshowIndex, preloadTimers,
                   seenPaths, workerCtorOk, restarts>>

\* Mutant of FailPending: the entries are cleared and their callbacks not called.
FailPending_DropsAll(L, k) ==
    [L EXCEPT !.loads = [i \in DOMAIN L.loads |->
                            IF L.loads[i].st = "worker"
                            THEN [L.loads[i] EXCEPT !.st = "end"]
                            ELSE L.loads[i]]]

\* pending.forEach((cb) => cb.onError()) of worker.onerror, from request k on.
RECURSIVE FailPending(_, _)
FailPending(L, k) ==
    IF k > Len(L.loads) THEN L
    ELSE IF L.loads[k].st = "worker"
         THEN FailPending([fallbackMain(L, k, "workererror")
                               EXCEPT !.loads[k].age = 0], k + 1)
         ELSE FailPending(L, k + 1)

\* worker.onerror: worker = null, every pending request fails over, pending.clear().
OnWorkerError ==
    /\ worker = "live"
    /\ Commit(FailPending([Cur EXCEPT !.worker = "null"], 1))
    /\ UNCHANGED <<uiVars, filteredImages, settings, containerWidth, containerHeight,
                   scrollVars, isSlideshowActive, slideshowIndex, preloadTimers,
                   seenPaths, workerCtorOk, restarts>>

\* getCachedBlob(path) of fallbackMain settles: a hit goes to loadFromBlobMain,
\* a miss to fetch(url), a rejection to loadFromUrlMain.
FallbackGet(i, res) ==
    /\ i \in DOMAIN loads
    /\ loads[i].st = "get"
    /\ LET r == loads[i]
           b == getCachedBlob(store, StoreKey(r.path))
       IN  loads' = [loads EXCEPT ![i] =
              IF res = "reject"
              THEN [r EXCEPT !.st = "url", !.getFail = TRUE, !.fetched = TRUE]
              ELSE IF b # "none" THEN [r EXCEPT !.st = "blob", !.blob = b]
              ELSE [r EXCEPT !.st = "fetch", !.fetched = TRUE]]
    /\ UNCHANGED <<uiVars, galleryVars, worker, workerCtorOk, nextId, store,
                   succeeded, restarts>>

\* fetch(url) of fallbackMain settles: the blob is written to the store, then
\* loadFromBlobMain; a failed fetch goes to loadFromUrlMain.
FallbackFetch(i, res, written) ==
    /\ i \in DOMAIN loads
    /\ loads[i].st = "fetch"
    /\ res = "fail" => written = FALSE
    /\ LET r == loads[i]
       IN  IF res = "fail"
           THEN /\ loads' = [loads EXCEPT ![i].st = "url", ![i].fetched = TRUE]
                /\ store' = store
           ELSE /\ loads' = [loads EXCEPT
                              ![i].st = AfterWrite("blob", "url", written),
                              ![i].blob = res,
                              ![i].wrote = WriteOutcome(written)]
                /\ store' = IF written THEN [store EXCEPT ![StoreKey(r.path)] = res]
                            ELSE store
    /\ UNCHANGED <<uiVars, galleryVars, worker, workerCtorOk, nextId, succeeded,
                   restarts>>

\* loadFromBlobMain: the bitmap (or the img element of the object url) settles.
BlobImageSettled(i) ==
    /\ i \in DOMAIN loads
    /\ loads[i].st = "blob"
    /\ LET L0 == [Cur EXCEPT !.loads[i].st = "end", !.loads[i].blob = "none"]
       IN  IF loads[i].blob = "good" THEN Commit(onLoad(L0, i))
           ELSE Commit(onError(L0, i))
    /\ UNCHANGED <<uiVars, filteredImages, settings, containerWidth, containerHeight,
                   scrollVars, isSlideshowActive, slideshowIndex, preloadTimers,
                   seenPaths, workerCtorOk, restarts>>

\* loadFromUrlMain: img.onload or img.onerror of the img element of the url.
UrlImageSettled(i, ok) ==
    /\ i \in DOMAIN loads
    /\ loads[i].st = "url"
    /\ LET L0 == [Cur EXCEPT !.loads[i].st = "end"]
       IN  IF ok THEN Commit(onLoad(L0, i)) ELSE Commit(onError(L0, i))
    /\ UNCHANGED <<uiVars, filteredImages, settings, containerWidth, containerHeight,
                   scrollVars, isSlideshowActive, slideshowIndex, preloadTimers,
                   seenPaths, workerCtorOk, restarts>>

----------------------------------------------------------------------------
(* Video thumbnails (loadVideoThumbnail, captureVideoFrame).               *)

\* captureVideoFrame(): a video element is created and its url loaded.
captureVideoFrame(r) == [r EXCEPT !.st = "vcapture", !.vid = "live", !.fetched = TRUE]

\* getCachedBlob(thumbKey) settles: a hit is decoded, a miss or a rejection
\* captures a frame of the video.
ThumbGet(i, res) ==
    /\ i \in DOMAIN loads
    /\ loads[i].st = "vget"
    /\ LET r == loads[i]
           b == getCachedBlob(store, StoreKey(r.path))
       IN  loads' = [loads EXCEPT ![i] =
              IF res = "reject" THEN captureVideoFrame([r EXCEPT !.getFail = TRUE])
              ELSE IF b # "none" THEN [r EXCEPT !.st = "vbitmap", !.blob = b]
              ELSE captureVideoFrame(r)]
    /\ UNCHANGED <<uiVars, galleryVars, worker, workerCtorOk, nextId, store,
                   succeeded, restarts>>

\* createImageBitmap(blob).then(onLoad).catch(onError) of a stored thumbnail.
ThumbBitmap(i) ==
    /\ i \in DOMAIN loads
    /\ loads[i].st = "vbitmap"
    /\ LET L0 == [Cur EXCEPT !.loads[i].st = "end", !.loads[i].blob = "none"]
       IN  IF loads[i].blob = "good" THEN Commit(onLoad(L0, i))
           ELSE Commit(onError(L0, i))
    /\ UNCHANGED <<uiVars, filteredImages, settings, containerWidth, containerHeight,
                   scrollVars, isSlideshowActive, slideshowIndex, preloadTimers,
                   seenPaths, workerCtorOk, restarts>>

\* video.onloadedmetadata, then video.onseeked: a frame without dimensions (or
\* without a 2d context) is cleaned up and fails; otherwise the canvas is
\* handed to createImageBitmap.
VideoSeeked(i, ok) ==
    /\ i \in DOMAIN loads
    /\ loads[i].st = "vcapture"
    /\ loads[i].vid = "live"
    /\ IF ok THEN Commit([Cur EXCEPT !.loads[i].st = "vframe"])
       ELSE Commit(onError([Cur EXCEPT !.loads[i].st = "end",
                                       !.loads[i].vid = "cleaned"], i))
    /\ UNCHANGED <<uiVars, filteredImages, settings, containerWidth, containerHeight,
                   scrollVars, isSlideshowActive, slideshowIndex, preloadTimers,
                   seenPaths, workerCtorOk, restarts>>

\* createImageBitmap(c) of the captured frame settles: cleanup(), then the jpeg
\* of the canvas is written to the store (if toBlob produced one and the write
\* succeeds) and onLoad is called; a rejection fails the load.
FrameBitmap(i, ok, written) ==
    /\ i \in DOMAIN loads
    /\ loads[i].st = "vframe"
    /\ ~ok => written = FALSE
    /\ LET L0 == [Cur EXCEPT !.loads[i].st = "end",
                             !.loads[i].vid = IF @ = "live" THEN "cleaned" ELSE @]
           L1 == [(IF written
                   THEN [L0 EXCEPT !.store[StoreKey(loads[i].path)] = "good"]
                   ELSE L0) EXCEPT !.loads[i].wrote = WriteOutcome(written)]
       IN  IF ok /\ AfterWrite(TRUE, FALSE, written) THEN Commit(onLoad(L1, i))
           ELSE IF ok THEN Commit(onError(L1, i))
           ELSE Commit(onError(L0, i))
    /\ UNCHANGED <<uiVars, filteredImages, settings, containerWidth, containerHeight,
                   scrollVars, isSlideshowActive, slideshowIndex, preloadTimers,
                   seenPaths, workerCtorOk, restarts>>

\* video.onerror: cleanup(); onError().  The handler stays attached after
\* cleanup(), whose `src = ''; load()` may itself make the element report an
\* error.  An element that failed delivers no seeked event.
VideoError(i) ==
    /\ i \in DOMAIN loads
    /\ loads[i].vid \in {"live", "cleaned"}
    /\ loads[i].verr < MaxVideoErrors
    /\ Commit(onError([Cur EXCEPT !.loads[i].vid = "cleaned",
                                  !.loads[i].verr = @ + 1,
                                  !.loads[i].st = IF @ = "vcapture" THEN "end"
                                                  ELSE @], i))
    /\ UNCHANGED <<uiVars, filteredImages, settings, containerWidth, containerHeight,
                   scrollVars, isSlideshowActive, slideshowIndex, preloadTimers,
                   seenPaths, workerCtorOk, restarts>>

----------------------------------------------------------------------------
(* Time, restarts, the slideshow, and the specification of a session.      *)

\* TickMs pass; the timeout of a pending request fires before time passes its
\* deadline.
Tick ==
    /\ \E i \in DOMAIN loads : loads[i].st = "worker"
    /\ \A i \in DOMAIN loads :
          loads[i].st = "worker" => ~TimeoutDue(loads[i].age)
    /\ loads' = [i \in DOMAIN loads |->
                    IF loads[i].st = "worker"
                    THEN [loads[i] EXCEPT !.age = @ + TickMs]
                    ELSE loads[i]]
    /\ UNCHANGED <<uiVars, galleryVars, worker, workerCtorOk, nextId, store,
                   succeeded, restarts>>

\* The process is closed and started again: a fresh pipeline and a fresh
\* gallery over the same vault and the same persistent store.
Restart ==
    /\ restarts < MaxRestarts
    /\ restarts' = restarts + 1
    /\ worker' = IF workerCtorOk THEN "live" ELSE "null"
    /\ nextId' = 0
    /\ loads' = <<>>
    /\ cache' = [p \in Paths |-> "absent"]
    /\ layoutVersion' = 0
    /\ Relayout(filteredImages, settings, [p \in Paths |-> "absent"],
                containerWidth, containerHeight)
    /\ targetScroll' = 0
    /\ scrollRef' = 0
    /\ targetScrollX' = 0
    /\ scrollRefX' = 0
    /\ isDraggingRef' = FALSE
    /\ isSlideshowActive' = FALSE
    /\ slideshowIndex' = 0
    /\ preloadTimers' = {i \in 0..(Len(filteredImages) - 1) : TRUE}
    /\ seenPaths' = {}
    /\ savedIntervalSec' = settings.slideshowIntervalSec
    /\ saveTimeoutRef' = <<>>
    /\ UNCHANGED <<inputVars, filteredImages, settings, containerWidth, containerHeight,
                   workerCtorOk, store, succeeded>>

\* A px value in hundredths of a px.
ToHundredths(r) == (r[1] * 100) \div r[2]

\* Math.max(0, layout[0].y - GAP), the scroll target of the first slide.
FirstSlideScroll(layout) ==
    IF Len(layout) > 0 THEN Max(0, ToHundredths(RSub(layout[1].y, RInt(GAP))))
    ELSE targetScroll

\* The inactivity check (or the end of the countdown) starts the slideshow.
StartSlideshow ==
    /\ settings.slideshowIntervalSec > 0
    /\ ~isSlideshowActive
    /\ isSlideshowActive' = TRUE
    /\ slideshowIndex' = 0
    /\ targetScroll' = FirstSlideScroll(layoutData)
    /\ UNCHANGED <<uiVars, filteredImages, settings, containerWidth,
                   containerHeight, cache,
                   layoutVersion, layoutData, layoutRows, scrollRef, targetScrollX,
                   scrollRefX, isDraggingRef, preloadTimers, seenPaths, loaderVars>>

\* onSlideshowInterrupt: a click stops the slideshow and turns the interval off.
onSlideshowInterrupt ==
    /\ isSlideshowActive
    /\ isSlideshowActive' = FALSE
    /\ settings' = [settings EXCEPT !.slideshowIntervalSec = 0]
    /\ savedIntervalSec' = 0
    /\ UNCHANGED <<inputVars, saveTimeoutRef, filteredImages, containerWidth,
                   containerHeight, cache,
                   layoutVersion, layoutData, layoutRows, scrollVars, slideshowIndex,
                   preloadTimers, seenPaths, loaderVars>>

\* The vault of a session holds one image or one video; the pane of the
\* gallery is 320 px wide and 200 px high, or collapsed to a height of 5 px.
SessionItems == {<<"a.png">>, <<"v.mp4">>}
SessionWidths == {320}
SessionHeights == {5, 200}

\* A mounted gallery whose load-state effect has run, before its first frame.
Init ==
    /\ filteredImages \in SessionItems
    /\ \E sec \in {0, 5} :
          settings = [DEFAULT_SETTINGS EXCEPT !.slideshowIntervalSec = sec]
    /\ containerWidth \in SessionWidths
    /\ containerHeight \in SessionHeights
    /\ cache = [p \in Paths |-> "absent"]
    /\ layoutVersion = 0
    /\ LET r == ComputeLayout(filteredImages, settings, cache, containerWidth,
                              containerHeight)
       IN  layoutData = r.layout /\ layoutRows = r.rows
    /\ targetScroll = 0
    /\ scrollRef = 0
    /\ targetScrollX = 0
    /\ scrollRefX = 0
    /\ isDraggingRef = FALSE
    /\ isSlideshowActive = FALSE
    /\ slideshowIndex = 0
    /\ preloadTimers = {i \in 0..(Len(filteredImages) - 1) : TRUE}
    /\ seenPaths = {}
    /\ LoaderInit
    /\ stateLoaded = TRUE
    /\ UiInit

Next ==
    \/ DrawFrame
    \/ \E i \in 0..(MaxItems - 1) : PreloadTimer(i)
    \/ \E i \in 1..MaxLoads, res \in GetOutcomes : WorkerGet(i, res)
    \/ \E i \in 1..MaxLoads, res \in FetchOutcomes, written \in BOOLEAN :
          WorkerFetch(i, res, written)
    \/ \E i \in 1..MaxLoads : WorkerDecode(i)
    \/ \E i \in 1..MaxLoads : WorkerReplyBare(i)
    \/ \E i \in 1..MaxLoads : OnWorkerMessage(i)
    \/ \E i \in 1..MaxLoads : WorkerTimeout(i)
    \/ OnWorkerError
    \/ \E i \in 1..MaxLoads, res \in GetOutcomes : FallbackGet(i, res)
    \/ \E i \in 1..MaxLoads, res \in FetchOutcomes, written \in BOOLEAN :
          FallbackFetch(i, res, written)
    \/ \E i \in 1..MaxLoads : BlobImageSettled(i)
    \/ \E i \in 1..MaxLoads, ok \in BOOLEAN : UrlImageSettled(i, ok)
    \/ \E i \in 1..MaxLoads, res \in GetOutcomes : ThumbGet(i, res)
    \/ \E i \in 1..MaxLoads : ThumbBitmap(i)
    \/ \E i \in 1..MaxLoads, ok \in BOOLEAN : VideoSeeked(i, ok)
    \/ \E i \in 1..MaxLoads, ok \in BOOLEAN, written \in BOOLEAN :
          FrameBitmap(i, ok, written)
    \/ \E i \in 1..MaxLoads : VideoError(i)
    \/ Tick
    \/ Restart
    \/ StartSlideshow
    \/ onSlideshowInterrupt

Spec == Init /\ [][Next]_vars

----------------------------------------------------------------------------
(* Claims about the layout (LayoutSpec).                                   *)

\* The widths of the rects of a row of the layout, summed.
RowWidthSum(row) == RSum([k \in DOMAIN layoutData |-> layoutData[k].w], row)

\* C9: in justified mode every closed row (every row but the last) has
\* sum of item widths + (count + 1) * gap = container width.
C9_JustifiedRowsFill ==
    settings.layout = "justified" =>
        \A r \in 1..(Len(layoutRows) - 1) :
            RAdd(RowWidthSum(layoutRows[r]), RInt((Len(layoutRows[r]) + 1) * GAP))
                = RInt(containerWidth)

\* A justified layout with at least two closed rows, one of them of several
\* items that were rescaled.
C9_Witness ==
    /\ settings.layout = "justified"
    /\ Len(layoutRows) >= 3
    /\ \E r \in 1..(Len(layoutRows) - 1) :
          /\ Len(layoutRows[r]) >= 2
          /\ layoutData[layoutRows[r][1]].h # RInt(settings.zoom)

\* C10: in square mode, with cols = max(1, floor((width - gap) / (zoom + gap))),
\* every rect is a square of side (width - (cols + 1) * gap) / cols, item i is at
\* column i mod cols of row floor(i / cols), and no row extends past the container
\* width; 10 items at zoom 200 in a width of 1000 give cols = 4 and side 237.5.
C10_SquareGrid ==
    (settings.layout = "square" /\ layoutData # <<>>) =>
        LET cols == Max(1, (containerWidth - GAP) \div (settings.zoom + GAP))
            side == Rat(containerWidth - (cols + 1) * GAP, cols)
        IN  /\ Len(layoutData) = Len(filteredImages)
            /\ \A k \in DOMAIN layoutData :
                  LET rc == layoutData[k]
                      col == (k - 1) % cols
                      row == (k - 1) \div cols
                  IN  /\ rc.w = side
                      /\ rc.h = side
                      /\ rc.x = RAdd(RInt(GAP), RMul(RInt(col), RAdd(side, RInt(GAP))))
                      /\ rc.y = RAdd(RInt(GAP),
                                     RMul(RInt(row),
                                          RAdd(side, RInt(GAP + textH(settings)))))
                      /\ RLe(RAdd(rc.x, rc.w), RInt(containerWidth))
            /\ (containerWidth = 1000 /\ settings.zoom = 200) =>
                  (cols = 4 /\ side = Rat(2375, 10))

\* The scenario of the claim: 10 items, zoom 200, width 1000, cells of 237.5.
C10_Witness ==
    /\ settings.layout = "square"
    /\ containerWidth = 1000
    /\ settings.zoom = 200
    /\ Len(layoutData) = 10
    /\ layoutData[10].w = Rat(475, 2)
    /\ layoutData[10].x = RAdd(RInt(GAP), Rat(495, 2))

----------------------------------------------------------------------------
(* Claims about the load pipeline (Spec).                                  *)

\* The load has a continuation left that ends in a call of onLoad or onError.
HasContinuation(r) ==
    r.st \in {"worker", "get", "fetch", "blob", "url", "vget", "vbitmap",
              "vcapture", "vframe"}

WorkerAttempts(p) ==
    {i \in DOMAIN loads : loads[i].path = p /\ loads[i].w \in {"fetch", "decode"}}
MainAttempts(p) ==
    {i \in DOMAIN loads : loads[i].path = p
        /\ loads[i].st \in {"fetch", "blob", "url", "vbitmap", "vcapture", "vframe"}}

\* C3: at every moment at most one fetch or decode of a path is in flight,
\* the worker's and the main thread's counted together.
C3_OneAttemptInFlight ==
    \A p \in SessionPaths :
        Cardinality(WorkerAttempts(p)) + Cardinality(MainAttempts(p)) <= 1

C5_OnlyDecodedBytesStored ==
    \A k \in StoreKeys : store[k] # "bad"

\* C6 as stated: a load is requested only for an item whose rect was in view
\* in some frame.
C6_OnlyViewedItemsRequested ==
    \A i \in DOMAIN loads : loads[i].seen

\* C6, amended: a load requested by the grid loop of a frame is for an item
\* whose rect is in view in that frame, and a load requested by the slideshow
\* branch is for a still image; the preload timers request items whether or
\* not they were ever in view.
C6_FrameLoadsOnlyItemsInView ==
    \A i \in DOMAIN loads :
        /\ loads[i].origin = "draw" => loads[i].seen
        /\ loads[i].origin = "slide" => getMediaType(loads[i].path) = "image"

\* A preload timer requested an item no frame had shown, the load failed, and
\* a frame that showed the item requested it again.
C6_Witness ==
    \E i, j \in DOMAIN loads :
        /\ loads[i].origin = "preload" /\ ~loads[i].seen
        /\ loads[j].origin = "draw" /\ loads[j].seen

\* C7: a failure callback leaves the path's cache entry absent, and a frame
\* requests a load for every item in view whose entry is absent.
C7_FailureRevertsAndRetries ==
    [][/\ \A i \in DOMAIN loads :
             (i \in DOMAIN loads' /\ restarts' = restarts
                 /\ loads'[i].nErr > loads[i].nErr)
                 => cache'[loads[i].path] = "absent"
       /\ (DrawFrame /\ ~isSlideshowActive) =>
             \A k \in 1..Len(filteredImages) :
                 (InViewport(layoutData[k], scrollRef', scrollRefX')
                     /\ cache[filteredImages[k]] = "absent")
                 => /\ cache'[filteredImages[k]] = "loading"
                    /\ \E j \in DOMAIN loads' :
                          /\ j \notin DOMAIN loads
                          /\ loads'[j].path = filteredImages[k]]_vars

\* A load failed, and a frame requested the same path again.
C7_Witness ==
    \E i, j \in DOMAIN loads :
        /\ i < j
        /\ loads[i].nErr >= 1
        /\ loads[j].path = loads[i].path
        /\ loads[j].origin = "draw"
        /\ cache[loads[j].path] = "loading"

\* C8 as stated: a request to the worker that got no reply is handed to the
\* fallback at 15000 ms, not earlier.
C8_FallbackOnlyAtTimeout ==
    \A i \in DOMAIN loads :
        (loads[i].id # 0 /\ loads[i].fbCalls > 0 /\ ~loads[i].replied)
            => loads[i].fbAt = WorkerTimeoutMs

\* C8, amended: a request is handed to the fallback at most once; its timeout
\* does so at 15000 ms and only if no reply has arrived; a request pending is
\* never older than 15000 ms; a worker error hands over the pending requests
\* at whatever age they have.
C8_TimeoutFallback ==
    \A i \in DOMAIN loads :
        /\ loads[i].fbCalls <= 1
        /\ loads[i].via = "timeout" =>
              (loads[i].fbAt = WorkerTimeoutMs /\ ~loads[i].replied)
        /\ loads[i].via = "workererror" => ~loads[i].replied
        /\ loads[i].replied => loads[i].via \in {"none", "reply"}
        /\ loads[i].st = "worker" => loads[i].age <= WorkerTimeoutMs

\* A request timed out at 15000 ms and its load went on in the fallback.
C8_Witness ==
    \E i \in DOMAIN loads :
        /\ loads[i].via = "timeout"
        /\ loads[i].fbAt = WorkerTimeoutMs
        /\ loads[i].fbCalls = 1
        /\ loads[i].st # "worker"

----------------------------------------------------------------------------
(* Claims about the layout as a function of its inputs.                    *)

----------------------------------------------------------------------------
(* Zoom: the level <-> magnitude mapping (PhotoGallery.tsx 24-37) and the  *)
(* handlers that change settings.zoom.                                     *)
(*                                                                         *)
(* A zoom level L in [0, 1000] stands for the magnitude 50 * 20^(L/1000).  *)
(* exp and log are irrational, so a level is held here as the magnitude it *)
(* stands for, an exact rational: the order of levels is the order of      *)
(* their magnitudes, clamping a level to [0, 1000] is clamping its         *)
(* magnitude to [50, 1000], and adding 50*k levels is multiplying the      *)
(* magnitude by 20^(k/20).                                                 *)

ZOOM_BASE == 50

\* 20^(k/20), the magnitude ratio of 50*k levels, as the nearest rational with
\* numerator and denominator below 300000 (relative error below 2/10^9).
LevelRatio(k) ==
    CASE k = -4 -> <<135235, 246204>>
      [] k = -3 -> <<11373, 17825>>
      [] k = -2 -> <<173673, 234334>>
      [] k = -1 -> <<127059, 147590>>
      [] k = 0 -> <<1, 1>>
      [] k = 1 -> <<147590, 127059>>
      [] k = 2 -> <<234334, 173673>>
      [] k = 3 -> <<17825, 11373>>
      [] k = 4 -> <<246204, 135235>>
      [] k = 5 -> <<128828, 60919>>
      [] k = 6 -> <<164219, 66852>>
      [] k = 7 -> <<168170, 58937>>
      [] k = 8 -> <<203123, 61284>>
      [] k = 9 -> <<290211, 75379>>
      [] k = 10 -> <<283681, 63433>>
      [] k = 11 -> <<283193, 54515>>
      [] k = 12 -> <<295385, 48952>>
      [] k = 13 -> <<117874, 16817>>
      [] k = 14 -> <<282301, 34673>>
      [] k = 15 -> <<252182, 26665>>
      [] k = 16 -> <<12974, 1181>>
      [] k = 17 -> <<45492, 3565>>
      [] k = 18 -> <<260405, 17568>>
      [] k = 19 -> <<254118, 14759>>
      [] k = 20 -> <<20, 1>>

\* The level `level` (a multiple of 50 in 0..1000), as its magnitude.
Level(level) == RMul(RInt(ZOOM_BASE), LevelRatio(level \div 50))

\* Math.max(0, Math.min(1000, level))
ClampLevel(m) == RMax(RInt(ZOOM_BASE), IF RLt(RInt(ZOOM_MAX), m) THEN RInt(ZOOM_MAX) ELSE m)

\* level + 50 * k
LevelPlus(m, k) == RMul(m, LevelRatio(k))

\* zoomToLevel(zoom) = 1000 * log(max(ZOOM_BASE, zoom) / ZOOM_BASE) / log(20);
\* zoom is a rational.
zoomToLevel(zoom) == RMax(RInt(ZOOM_BASE), zoom)

\* Mutant of levelToZoom: the magnitude is truncated, not rounded.
levelToZoom_Truncates(m) == RFloor(m)

\* levelToZoom(level) = Math.round(ZOOM_BASE * exp(level / 1000 * log(20)))
levelToZoom(m) == RFloor(RAdd(m, Rat(1, 2)))

\* zoomMultiply(zoom, factor)
zoomMultiply(zoom, factor) ==
    levelToZoom(ClampLevel(LevelPlus(zoomToLevel(RInt(zoom)), factor)))

\* Math.max(ZOOM_MIN, Math.min(ZOOM_MAX, z))
ClampZoom(z) == Max(ZOOM_MIN, Min(ZOOM_MAX, z))

\* setSettings((s) => ({ ...s, zoom })) and the re-render it causes.
SetZoom(z) ==
    LET st == [settings EXCEPT !.zoom = z]
    IN  /\ settings' = st
        /\ Relayout(filteredImages, st, cache, containerWidth, containerHeight)
        /\ UNCHANGED <<filteredImages, containerWidth, containerHeight, cache,
                       layoutVersion, scrollVars, isSlideshowActive,
                       slideshowIndex, preloadTimers, seenPaths, loaderVars>>

\* The "-" button.
zoomOutButton ==
    /\ SetZoom(Max(ZOOM_MIN, zoomMultiply(settings.zoom, -1)))
    /\ saveState(FALSE)
    /\ UNCHANGED inputVars

\* The "+" button.
zoomInButton ==
    /\ SetZoom(Min(ZOOM_MAX, zoomMultiply(settings.zoom, 1)))
    /\ saveState(FALSE)
    /\ UNCHANGED inputVars

\* Positions of the zoom slider (min 0, max 1000) that the sessions try.
SliderLevels == {50 * j : j \in 0..20}

\* onChange of the slider: zoom = levelToZoom(parseInt(value)).
zoomSlider(level) ==
    /\ SetZoom(levelToZoom(Level(level)))
    /\ saveState(FALSE)
    /\ UNCHANGED inputVars

WheelDeltas == {-100, 0, 100}

\* onWheel with ctrlKey: factor = deltaY > 0 ? -1 : 1.
onWheelZoom(deltaY) ==
    /\ SetZoom(ClampZoom(zoomMultiply(settings.zoom, IF deltaY > 0 THEN -1 ELSE 1)))
    /\ saveState(FALSE)
    /\ UNCHANGED inputVars

\* Distances (px) between the two fingers of a pinch; two fingers are never
\* at the same point.
PinchDists == {40, 80}

\* onTouchStart with two touches.
onTouchStart(d) ==
    /\ pinchZoomRef' = <<[initialZoom |-> settings.zoom, initialDist |-> d]>>
    /\ UNCHANGED <<filterVars, bridgeVars, stateLoaded, pointerVars, selectVars, slideVars, lastClick,
                   persistVars, galleryVars, loaderVars>>

\* (ratio - 1) * 200 levels, in steps of 50 levels, for ratio = d / initialDist.
PinchSteps(d, initialDist) == (4 * (d - initialDist)) \div initialDist

\* onTouchMove with two touches during a pinch.
onTouchMove(d) ==
    /\ pinchZoomRef # <<>>
    /\ LET level    == zoomToLevel(RInt(pinchZoomRef[1].initialZoom))
           newLevel == LevelPlus(level, PinchSteps(d, pinchZoomRef[1].initialDist))
           newZoom  == levelToZoom(ClampLevel(newLevel))
       IN  SetZoom(ClampZoom(newZoom))
    /\ UNCHANGED uiVars

\* touchend / touchcancel.
onTouchEndClean ==
    /\ pinchZoomRef # <<>>
    /\ pinchZoomRef' = <<>>
    /\ UNCHANGED <<filterVars, bridgeVars, stateLoaded, pointerVars, selectVars, slideVars, lastClick,
                   persistVars, galleryVars, loaderVars>>

\* A mounted gallery of three items, before its state has been loaded.
ZoomInit ==
    /\ filteredImages = SubSeq(Catalogue, 1, 3)
    /\ settings = DEFAULT_SETTINGS
    /\ containerWidth = 320
    /\ containerHeight = 200
    /\ cache = [p \in Paths |-> "absent"]
    /\ layoutVersion = 0
    /\ LET r == ComputeLayout(filteredImages, settings, cache, containerWidth,
                              containerHeight)
       IN  layoutData = r.layout /\ layoutRows = r.rows
    /\ targetScroll = 0
    /\ scrollRef = 0
    /\ targetScrollX = 0
    /\ scrollRefX = 0
    /\ isDraggingRef = FALSE
    /\ isSlideshowActive = FALSE
    /\ slideshowIndex = 0
    /\ preloadTimers = {}
    /\ seenPaths = {}
    /\ LoaderInit
    /\ workerCtorOk
    /\ stateLoaded = FALSE
    /\ UiInit

\* The pointer of a session is a mouse or two fingers: while a pinch is in
\* progress no button, slider or wheel event arrives.
ZoomNext ==
    \/ pinchZoomRef = <<>> /\ zoomOutButton
    \/ pinchZoomRef = <<>> /\ zoomInButton
    \/ \E level \in SliderLevels : pinchZoomRef = <<>> /\ zoomSlider(level)
    \/ \E deltaY \in WheelDeltas : pinchZoomRef = <<>> /\ onWheelZoom(deltaY)
    \/ \E d \in PinchDists : onTouchStart(d)
    \/ \E d \in PinchDists : onTouchMove(d)
    \/ onTouchEndClean
    \/ \E saved \in SavedSettings : LoadState(saved)
    \/ saveTimerFires

ZoomSpec == ZoomInit /\ [][ZoomNext]_vars

----------------------------------------------------------------------------
(* Claims about the zoom (ZoomSpec).                                       *)

\* Magnitudes in [50, 1000], whole and fractional.
SampleZooms ==
    {RInt(z) : z \in {50, 51, 100, 200, 999, 1000}}
    \cup {Rat(201, 4), Rat(201, 2), Rat(403, 4), Rat(1999, 2), Rat(3999, 4)}
\* |a - b| <= 1/2
WithinRounding(a, b) ==
    RLe(RSub(a, b), Rat(1, 2)) /\ RLe(RSub(b, a), Rat(1, 2))

----------------------------------------------------------------------------
(* Scrolling, the canvas pointer handlers and the slideshow's steps.       *)

\* Parts of the gallery state no input handler changes.
mediaVars == <<filteredImages, containerWidth, containerHeight, cache,
               layoutVersion, layoutData, layoutRows, preloadTimers, seenPaths>>

\* clampScroll, vertical: Math.max(0, last.y + last.h + GAP + textH - rect.height)
\* (0 without items), in hundredths of a px.
MaxScrollY ==
    IF Len(layoutData) = 0 THEN 0
    ELSE LET last == layoutData[Len(layoutData)]
         IN  Max(0, ToHundredths(RSub(RAdd(RAdd(last.y, last.h),
                                           RInt(GAP + textH(settings))),
                                      RInt(containerHeight))))

\* panoramaTotalWidthRef: the x after the last item, as the layout effect of a
\* panorama mode leaves it.
panoramaTotalWidth ==
    IF Len(layoutData) = 0 THEN RInt(0)
    ELSE LET last == layoutData[Len(layoutData)]
         IN  RAdd(RAdd(last.x, last.w), RInt(GAP))

\* clampScroll, horizontal: Math.max(0, totalW - rect.width)
MaxScrollX == Max(0, ToHundredths(RSub(panoramaTotalWidth, RInt(containerWidth))))

\* Math.max(0, Math.min(t, max))
ClampTarget(t, max) == Max(0, Min(t, max))

\* clampScroll() after the handler has set the targets to t (vertical) and tx
\* (horizontal): only the target of the current mode is clamped.
clampScroll(t, tx) ==
    IF isPanoramaLayout(settings)
    THEN /\ targetScrollX' = ClampTarget(tx, MaxScrollX)
         /\ targetScroll' = t
    ELSE /\ targetScroll' = ClampTarget(t, MaxScrollY)
         /\ targetScrollX' = tx

\* onWheel without ctrlKey.
onWheelScroll(deltaY) ==
    /\ IF isPanoramaLayout(settings)
       THEN clampScroll(targetScroll, targetScrollX + 100 * deltaY)
       ELSE clampScroll(targetScroll + 100 * deltaY, targetScrollX)
    /\ UNCHANGED <<uiVars, mediaVars, settings, scrollRef, scrollRefX,
                   isDraggingRef, isSlideshowActive, slideshowIndex, loaderVars>>

KEY_SCROLL_STEP == 80
ArrowKeys == {"ArrowLeft", "ArrowRight", "ArrowUp", "ArrowDown"}

\* The gallery's arrow-key listener (no lightbox, no slideshow).
onKeyScroll(key) ==
    /\ ~lightboxOpen
    /\ ~isSlideshowActive
    /\ IF isPanoramaLayout(settings)
       THEN clampScroll(targetScroll,
                        targetScrollX + 100 * (IF key \in {"ArrowLeft", "ArrowUp"}
                                               THEN KEY_SCROLL_STEP
                                               ELSE -KEY_SCROLL_STEP))
       ELSE clampScroll(targetScroll + 100 * (IF key \in {"ArrowUp", "ArrowLeft"}
                                              THEN -KEY_SCROLL_STEP
                                              ELSE KEY_SCROLL_STEP),
                        targetScrollX)
    /\ UNCHANGED <<uiVars, mediaVars, settings, scrollRef, scrollRefX,
                   isDraggingRef, isSlideshowActive, slideshowIndex, loaderVars>>

\* scrollToTop (a click on the header bar).
scrollToTop ==
    /\ scrollRef' = 0
    /\ scrollRefX' = 0
    /\ targetScroll' = 0
    /\ targetScrollX' = 0
    /\ UNCHANGED <<uiVars, mediaVars, settings, isDraggingRef, isSlideshowActive,
                   slideshowIndex, loaderVars>>

\* The component's maxScroll (useMemo): 0 in the panorama modes.
maxScroll == IF isPanoramaLayout(settings) THEN 0 ELSE MaxScrollY

\* Positions of the pointer on the timeline, as quarters of its height.
ScrubQuarters == {0, 4}

\* onTimelineScrub(clientY), the pointer q quarters down the timeline.
onTimelineScrub(q) ==
    /\ ~isPanoramaLayout(settings)
    /\ ~isSlideshowActive
    /\ maxScroll > 0
    /\ LET newScroll == (q * maxScroll) \div 4
       IN  /\ scrollRef' = newScroll
           /\ clampScroll(newScroll, targetScrollX)
    /\ UNCHANGED <<uiVars, mediaVars, settings, scrollRefX, isDraggingRef,
                   isSlideshowActive, slideshowIndex, loaderVars>>

\* layoutData.find of the pointer-up handler: the 0-based index of the first
\* rect that holds the point (x, y) of the canvas, -1 if none.
HitIndex(x, y) ==
    LET mx == IF isPanoramaLayout(settings)
              THEN RAdd(RInt(x), Rat(scrollRefX, 100)) ELSE RInt(x)
        my == IF isPanoramaLayout(settings)
              THEN RInt(y) ELSE RAdd(RInt(y), Rat(scrollRef, 100))
        hits == { k \in DOMAIN layoutData :
                    /\ RLe(layoutData[k].x, mx)
                    /\ RLe(mx, RAdd(layoutData[k].x, layoutData[k].w))
                    /\ RLe(layoutData[k].y, my)
                    /\ RLe(my, RAdd(layoutData[k].y, layoutData[k].h)) }
    IN  IF hits = {} THEN -1
        ELSE (CHOOSE k \in hits : \A j \in hits : k <= j) - 1

\* The overlay item of index i takes pointer events (its inline style):
\* in edit mode every item does, otherwise only videos and GIFs.
OverlayTakesPointer(i) ==
    /\ ~isSlideshowActive
    /\ i >= 0 /\ i < Len(filteredImages)
    /\ \/ isEditMode
       \/ getMediaType(filteredImages[i + 1]) = "video"
       \/ isGif(filteredImages[i + 1])

\* The pointer event at (x, y) is delivered to the canvas: no dialog covers
\* the gallery and no overlay item that takes pointer events lies over the
\* point.
CanvasReceives(x, y) ==
    /\ ~lightboxOpen
    /\ ~noteModal
    /\ ~OverlayTakesPointer(HitIndex(x, y))

\* onCanvasPointerDown: the click interrupts the slideshow and its countdown;
\* the primary button starts a press.
onCanvasPointerDown(button, x, y) ==
    /\ CanvasReceives(x, y)
    /\ isSlideshowActive' = FALSE
    /\ settings' = IF isSlideshowActive
                   THEN [settings EXCEPT !.slideshowIntervalSec = 0] ELSE settings
    /\ savedIntervalSec' = IF isSlideshowActive THEN 0 ELSE savedIntervalSec
    /\ slideshowCountdown' = 0
    /\ countdownCancelled' = (countdownCancelled \/ slideshowCountdown > 0)
    /\ countdownIntervalRef' = IF slideshowCountdown # 0 THEN "null"
                               ELSE countdownIntervalRef
    /\ IF button # 0
       THEN UNCHANGED <<pointerVars, isDraggingRef>>
       ELSE /\ isPointerDownRef' = TRUE
            /\ startYRef' = y
            /\ startXRef' = x
            /\ startScrollRef' = targetScroll
            /\ startScrollXRef' = targetScrollX
            /\ hasMovedRef' = FALSE
            /\ isDraggingRef' = FALSE
            /\ velocityRef' = 0
    /\ UNCHANGED <<filterVars, bridgeVars, stateLoaded, pinchZoomRef, selectVars, lastClick, cycleClicks,
                   saveTimeoutRef, mediaVars, targetScroll, scrollRef, targetScrollX, scrollRefX,
                   slideshowIndex, loaderVars>>

\* Drag velocities (px per ms) a move may leave in velocityRef: the value
\* depends on the time between two move events.
Velocities == {-1, 1}

\* onCanvasPointerMove with the primary button held or not.
onCanvasPointerMove(held, x, y, v) ==
    /\ IF ~isPointerDownRef \/ ~held
       THEN /\ isPointerDownRef' = FALSE
            /\ isDraggingRef' = FALSE
            /\ UNCHANGED <<hasMovedRef, velocityRef, scrollVars>>
       ELSE LET pano  == isPanoramaLayout(settings)
                delta == IF pano THEN x - startXRef ELSE y - startYRef
                moved == hasMovedRef \/ Abs(delta) > 8
            IN  /\ hasMovedRef' = moved
                /\ UNCHANGED isPointerDownRef
                /\ IF ~moved
                   THEN UNCHANGED <<velocityRef, scrollVars>>
                   ELSE /\ isDraggingRef' = TRUE
                        /\ velocityRef' = IF pano THEN velocityRef ELSE v
                        /\ IF pano
                           THEN /\ scrollRefX' = startScrollXRef - 100 * delta
                                /\ UNCHANGED scrollRef
                                /\ clampScroll(targetScroll,
                                               startScrollXRef - 100 * delta)
                           ELSE /\ scrollRef' = startScrollRef - 100 * delta
                                /\ UNCHANGED scrollRefX
                                /\ clampScroll(startScrollRef - 100 * delta,
                                               targetScrollX)
    /\ UNCHANGED <<filterVars, bridgeVars, stateLoaded, pinchZoomRef, startYRef, startXRef, startScrollRef,
                   startScrollXRef, selectVars, slideVars, lastClick, persistVars,
                   mediaVars,
                   settings, isSlideshowActive, slideshowIndex, loaderVars>>

\* Mutant of RangePaths: the upper end of the range is left out.
RangePaths_WithoutUpperEnd(lo, hi) ==
    { filteredImages[k + 1] :
        k \in {j \in lo..(hi - 1) : j >= 0 /\ j < Len(filteredImages)} }

\* The paths of the items at the 0-based indices lo..hi of the filtered order.
RangePaths(lo, hi) ==
    { filteredImages[k + 1] : k \in {j \in lo..hi : j >= 0 /\ j < Len(filteredImages)} }

\* The selection after a plain click on path p in edit mode.
ToggleSelected(sel, p) == IF p \in sel THEN sel \ {p} ELSE sel \cup {p}

\* The selection part of a click with the primary button on item idx
\* (0-based), shared by the canvas and the overlay items.
ClickSelects(idx, ctrl, shift) ==
    LET p == filteredImages[idx + 1]
    IN  IF ctrl
        THEN /\ isEditMode' = TRUE
             /\ selection' = {p}
             /\ lastSelectedIndexRef' = idx
        ELSE IF shift /\ isEditMode
        THEN LET anchor == IF lastSelectedIndexRef >= 0 THEN lastSelectedIndexRef
                           ELSE idx
             IN  /\ selection' = RangePaths(Min(anchor, idx), Max(anchor, idx))
                 /\ UNCHANGED <<isEditMode, lastSelectedIndexRef>>
        ELSE IF isEditMode
        THEN /\ selection' = ToggleSelected(selection, p)
             /\ lastSelectedIndexRef' = idx
             /\ UNCHANGED isEditMode
        ELSE UNCHANGED <<isEditMode, selection, lastSelectedIndexRef>>

\* onCanvasPointerUp: a press that did not move is a click on the item under
\* the pointer; a press that moved ends a drag, with a fling in the grid modes.
onCanvasPointerUp(button, ctrl, shift, x, y) ==
    /\ ~lightboxOpen
    /\ ~noteModal
    /\ isPointerDownRef
    /\ isPointerDownRef' = FALSE
    /\ isDraggingRef' = FALSE
    /\ IF ~hasMovedRef
       THEN LET idx == HitIndex(x, y)
            IN  /\ lastClick' = IF button = 0
                                 THEN [item |-> idx, ctrl |-> ctrl, shift |-> shift,
                                       seq |-> 1 - lastClick.seq]
                                 ELSE lastClick
                /\ IF idx < 0 \/ idx >= Len(filteredImages)
                   THEN UNCHANGED selectVars
                   ELSE IF button = 2
                   THEN /\ lightboxOpen' = (lightboxOpen \/ ~isEditMode)
                        /\ UNCHANGED <<isEditMode, selection, lastSelectedIndexRef,
                                       sortBy, noteModal>>
                   ELSE /\ ClickSelects(idx, ctrl, shift)
                        /\ UNCHANGED <<lightboxOpen, sortBy, noteModal>>
                /\ UNCHANGED <<targetScroll, targetScrollX>>
       ELSE /\ IF ~isPanoramaLayout(settings) /\ Abs(velocityRef) * 10 > 1
               THEN clampScroll(targetScroll + 100 * 350 * velocityRef,
                                targetScrollX)
               ELSE clampScroll(targetScroll, targetScrollX)
            /\ UNCHANGED <<selectVars, lastClick>>
    /\ UNCHANGED <<filterVars, bridgeVars, stateLoaded, pinchZoomRef, hasMovedRef, startYRef, startXRef,
                   startScrollRef, startScrollXRef, velocityRef, slideVars,
                   persistVars,
                   mediaVars, settings, scrollRef, scrollRefX, isSlideshowActive,
                   slideshowIndex, loaderVars>>

\* Math.max(0, item.y - GAP) in hundredths of a px, for the 0-based index next;
\* the target stays if the layout has no such item.
SlideScroll(next) ==
    IF next + 1 \in DOMAIN layoutData
    THEN Max(0, ToHundredths(RSub(layoutData[next + 1].y, RInt(GAP))))
    ELSE targetScroll

\* The index the interval callback moves to from current over n items, r being
\* Math.floor(Math.random() * layout.length).
NextSlide_KeepsDraw(r, current, n) == IF n <= 1 THEN 0 ELSE r

NextSlide(r, current, n) ==
    IF n <= 1 THEN 0
    ELSE IF r = current THEN (r + 1) % n
    ELSE r

\* The slideshow's interval callback: it shows a random other item.
SlideshowAdvance(r) ==
    /\ isSlideshowActive
    /\ settings.slideshowIntervalSec > 0
    /\ Len(layoutData) > 0
    /\ r \in 0..(Len(layoutData) - 1)
    /\ LET next == NextSlide(r, slideshowIndex, Len(layoutData))
       IN  /\ slideshowIndex' = next
           /\ targetScroll' = SlideScroll(next)
    /\ UNCHANGED <<uiVars, mediaVars, settings, scrollRef, targetScrollX,
                   scrollRefX, isDraggingRef, isSlideshowActive, loaderVars>>

\* The slideshow's arrow keys: the previous or the next item.
SlideshowArrowKey(key) ==
    /\ isSlideshowActive
    /\ Len(filteredImages) > 0
    /\ LET n    == Len(filteredImages)
           next == IF key = "ArrowLeft" THEN (slideshowIndex - 1 + n) % n
                   ELSE (slideshowIndex + 1) % n
       IN  /\ slideshowIndex' = next
           /\ targetScroll' = SlideScroll(next)
    /\ UNCHANGED <<uiVars, mediaVars, settings, scrollRef, targetScrollX,
                   scrollRefX, isDraggingRef, isSlideshowActive, loaderVars>>

\* Points of the canvas (px) the pointer is pressed, moved and released at.
PointerPoints == {<<100, 100>>, <<20, 20>>}
WheelScrollDeltas == {-240, 240}

\* A mounted gallery of two items, in a grid or a panorama mode, its
\* viewport taller than a row.
ScrollInit ==
    /\ filteredImages = SubSeq(Catalogue, 1, 2)
    /\ \E l \in {"justified", "panorama-square"} :
          settings = [DEFAULT_SETTINGS EXCEPT !.layout = l,
                                              !.slideshowIntervalSec = 5]
    /\ containerWidth = 320
    /\ containerHeight = 400
    /\ cache = [p \in Paths |-> "absent"]
    /\ layoutVersion = 0
    /\ LET r == ComputeLayout(filteredImages, settings, cache, containerWidth,
                              containerHeight)
       IN  layoutData = r.layout /\ layoutRows = r.rows
    /\ targetScroll = 0
    /\ scrollRef = 0
    /\ targetScrollX = 0
    /\ scrollRefX = 0
    /\ isDraggingRef = FALSE
    /\ isSlideshowActive = FALSE
    /\ slideshowIndex = 0
    /\ preloadTimers = {}
    /\ seenPaths = {}
    /\ LoaderInit
    /\ workerCtorOk
    /\ stateLoaded = TRUE
    /\ UiInit

ScrollNext ==
    \/ \E deltaY \in WheelScrollDeltas : onWheelScroll(deltaY)
    \/ \E key \in ArrowKeys : onKeyScroll(key)
    \/ scrollToTop
    \/ \E q \in ScrubQuarters : onTimelineScrub(q)
    \/ \E pt \in PointerPoints : onCanvasPointerDown(0, pt[1], pt[2])
    \/ \E pt \in PointerPoints, v \in Velocities :
          onCanvasPointerMove(TRUE, pt[1], pt[2], v)
    \/ \E pt \in PointerPoints : onCanvasPointerUp(0, FALSE, FALSE, pt[1], pt[2])
    \/ StartSlideshow
    \/ \E r \in 0..1 : SlideshowAdvance(r)
    \/ \E key \in {"ArrowLeft", "ArrowRight"} : SlideshowArrowKey(key)

ScrollSpec == ScrollInit /\ [][ScrollNext]_vars

----------------------------------------------------------------------------
\* C14: every step that changes the scroll target of the current mode (the
\* vertical target in the grid modes, the horizontal one in the panorama
\* modes) leaves it between 0 and the maximum scroll of the current layout
\* and viewport.
C14_TargetClampedAfterChange ==
    [][ /\ (~isPanoramaLayout(settings') /\ targetScroll' # targetScroll)
              => (0 <= targetScroll' /\ targetScroll' <= MaxScrollY')
        /\ (isPanoramaLayout(settings') /\ targetScrollX' # targetScrollX)
              => (0 <= targetScrollX' /\ targetScrollX' <= MaxScrollX') ]_vars

----------------------------------------------------------------------------
(* Edit mode and the selection.                                            *)

\* What the selection handlers leave alone, besides the item order and its
\* layout.
unsavedVars == <<stateLoaded, pinchZoomRef, pointerVars, slideVars, settings,
                 containerWidth, containerHeight, cache, layoutVersion,
                 scrollVars, isSlideshowActive, slideshowIndex, preloadTimers,
                 seenPaths, loaderVars>>
nonSelectVars == <<unsavedVars, persistVars, filterVars, bridgeVars>>

\* No dialog covers the gallery.
NoModal == ~lightboxOpen /\ ~noteModal

\* The click handler of an overlay item (index i, 0-based). The handler only
\* exists in edit mode: out of edit mode the overlay of a video or a GIF takes
\* the click and nothing handles it.
overlayItemClick(i, ctrl, shift) ==
    /\ NoModal
    /\ i + 1 \in DOMAIN layoutData
    /\ OverlayTakesPointer(i)
    /\ lastClick' = [item |-> i, ctrl |-> ctrl, shift |-> shift,
                     seq |-> 1 - lastClick.seq]
    /\ IF isEditMode
       THEN ClickSelects(i, ctrl, shift)
       ELSE UNCHANGED <<isEditMode, selection, lastSelectedIndexRef>>
    /\ UNCHANGED <<lightboxOpen, sortBy, noteModal, nonSelectVars, filteredImages,
                   layoutData, layoutRows>>

\* Mutant of ExitEditMode: the selection survives.
ExitEditMode_KeepsSelection ==
    /\ isEditMode' = FALSE
    /\ UNCHANGED selection

\* setIsEditMode(false); setSelection(new Set())
ExitEditMode ==
    /\ isEditMode' = FALSE
    /\ selection' = {}

\* The edit-mode button of the header.
toggleEditMode ==
    /\ NoModal
    /\ isEditMode' = ~isEditMode
    /\ selection' = {}
    /\ UNCHANGED <<lastSelectedIndexRef, lightboxOpen, sortBy, noteModal, lastClick,
                   nonSelectVars, filteredImages, layoutData, layoutRows>>

\* The Escape listener, installed in edit mode while no lightbox is open.
onEscapeKey ==
    /\ isEditMode
    /\ ~lightboxOpen
    /\ ExitEditMode
    /\ UNCHANGED <<lastSelectedIndexRef, lightboxOpen, sortBy, noteModal, lastClick,
                   nonSelectVars, filteredImages, layoutData, layoutRows>>

\* The Cancel button of the edit toolbar.
cancelEdit ==
    /\ NoModal
    /\ isEditMode
    /\ ~isSlideshowActive
    /\ ExitEditMode
    /\ UNCHANGED <<lastSelectedIndexRef, lightboxOpen, sortBy, noteModal, lastClick,
                   nonSelectVars, filteredImages, layoutData, layoutRows>>

\* localeCompare order of the file names.
NameOrder == <<"a.png", "b.jpg", "c.png", "d.jpg", "e.png", "f.jpg", "g.png",
               "h.jpg", "i.png", "j.jpg", "v.mp4", "w.webm">>

Reverse(s) == [k \in DOMAIN s |-> s[Len(s) + 1 - k]]
Range(s) == {s[k] : k \in DOMAIN s}

\* sortedAndFiltered: the files of the set S in the order of the sort mode;
\* the catalogue lists the files by decreasing modification time.
sortedAndFiltered(mode, S) ==
    CASE mode = "mtime-desc" -> SelectSeq(Catalogue, LAMBDA p : p \in S)
      [] mode = "mtime-asc"  -> Reverse(SelectSeq(Catalogue, LAMBDA p : p \in S))
      [] mode = "name-asc"   -> SelectSeq(NameOrder, LAMBDA p : p \in S)

SortOptions == {"mtime-desc", "name-asc"}

\* The files of the set S that pass the media-type filter (photos are shown).
Shown(S, videos) == {p \in S : getMediaType(p) = "image" \/ videos}

\* An option of the sort menu: the items are put in the new order and laid
\* out again.
changeSort(opt) ==
    /\ NoModal
    /\ sortBy' = opt
    /\ LET list == sortedAndFiltered(opt, Shown(allImages, showVideos))
       IN  /\ filteredImages' = list
           /\ Relayout(list, settings, cache, containerWidth, containerHeight)
    /\ saveState(TRUE)
    /\ UNCHANGED <<isEditMode, selection, lastSelectedIndexRef, lightboxOpen,
                   noteModal, lastClick, unsavedVars, filterVars, bridgeVars>>

\* The Delete button of the edit toolbar, confirmed: the selected files go to
\* the trash and the gallery is read again from the vault.
deleteSelected ==
    /\ NoModal
    /\ isEditMode
    /\ ~isSlideshowActive
    /\ ExitEditMode
    /\ allImages' = allImages \ selection
    /\ LET list == sortedAndFiltered(sortBy, Shown(allImages \ selection, showVideos))
       IN  /\ filteredImages' = list
           /\ Relayout(list, settings, cache, containerWidth, containerHeight)
    /\ UNCHANGED <<lastSelectedIndexRef, lightboxOpen, sortBy, noteModal, lastClick,
                   unsavedVars, persistVars, showVideos, bridgeVars>>

\* The videos checkbox of the filter menu: the items are filtered again with
\* the new media-type filter and laid out; the selection is left as it is.
toggleShowVideos ==
    /\ NoModal
    /\ ~isSlideshowActive
    /\ showVideos' = ~showVideos
    /\ LET list == sortedAndFiltered(sortBy, Shown(allImages, ~showVideos))
       IN  /\ filteredImages' = list
           /\ Relayout(list, settings, cache, containerWidth, containerHeight)
    /\ saveState(TRUE)
    /\ UNCHANGED <<selectVars, lastClick, unsavedVars, allImages, bridgeVars>>

\* The add-to-note button of the edit toolbar opens the note dialog.
openNoteModal ==
    /\ NoModal
    /\ isEditMode
    /\ ~isSlideshowActive
    /\ noteModal' = TRUE
    /\ UNCHANGED <<isEditMode, selection, lastSelectedIndexRef, lightboxOpen, sortBy,
                   lastClick, nonSelectVars, filteredImages, layoutData, layoutRows>>

\* The note dialog is dismissed (its backdrop or its close button).
closeNoteModal ==
    /\ noteModal
    /\ noteModal' = FALSE
    /\ UNCHANGED <<isEditMode, selection, lastSelectedIndexRef, lightboxOpen, sortBy,
                   lastClick, nonSelectVars, filteredImages, layoutData, layoutRows>>

\* A note is picked in the dialog: the links are appended to it.
addToNoteDone ==
    /\ noteModal
    /\ noteModal' = FALSE
    /\ ExitEditMode
    /\ UNCHANGED <<lastSelectedIndexRef, lightboxOpen, sortBy, lastClick,
                   nonSelectVars, filteredImages, layoutData, layoutRows>>

\* A double click or a right click on item i opens the lightbox.
openLightbox(i) ==
    /\ NoModal
    /\ ~isSlideshowActive
    /\ i + 1 \in DOMAIN layoutData
    /\ lightboxOpen' = TRUE
    /\ UNCHANGED <<isEditMode, selection, lastSelectedIndexRef, sortBy, noteModal,
                   lastClick, nonSelectVars, filteredImages, layoutData, layoutRows>>

closeLightbox ==
    /\ lightboxOpen
    /\ ~noteModal
    /\ lightboxOpen' = FALSE
    /\ UNCHANGED <<isEditMode, selection, lastSelectedIndexRef, sortBy, noteModal,
                   lastClick, nonSelectVars, filteredImages, layoutData, layoutRows>>

\* The add-to-note button of the lightbox, showing item i.
lightboxAddToNote(i) ==
    /\ lightboxOpen
    /\ ~noteModal
    /\ i + 1 \in DOMAIN filteredImages
    /\ selection' = {filteredImages[i + 1]}
    /\ noteModal' = TRUE
    /\ UNCHANGED <<isEditMode, lastSelectedIndexRef, lightboxOpen, sortBy, lastClick,
                   nonSelectVars, filteredImages, layoutData, layoutRows>>

\* The centre of the rect of item k (1-based), in whole px of the canvas.
ItemCentre(k) ==
    <<RFloor(RAdd(layoutData[k].x, RMul(layoutData[k].w, Rat(1, 2)))),
      RFloor(RAdd(layoutData[k].y, RMul(layoutData[k].h, Rat(1, 2))))>>

\* Where the pointer is pressed: on an item or in the corner of the canvas.
ClickPoints == {ItemCentre(k) : k \in DOMAIN layoutData} \cup {<<0, 0>>}

MaxSelectItems == 3

\* A mounted gallery of three files, all in view.
SelectInit ==
    /\ filteredImages = SubSeq(Catalogue, 1, MaxSelectItems)
    /\ settings = DEFAULT_SETTINGS
    /\ containerWidth = 1000
    /\ containerHeight = 600
    /\ cache = [p \in Paths |-> "absent"]
    /\ layoutVersion = 0
    /\ LET r == ComputeLayout(filteredImages, settings, cache, containerWidth,
                              containerHeight)
       IN  layoutData = r.layout /\ layoutRows = r.rows
    /\ targetScroll = 0
    /\ scrollRef = 0
    /\ targetScrollX = 0
    /\ scrollRefX = 0
    /\ isDraggingRef = FALSE
    /\ isSlideshowActive = FALSE
    /\ slideshowIndex = 0
    /\ preloadTimers = {}
    /\ seenPaths = {}
    /\ LoaderInit
    /\ workerCtorOk
    /\ stateLoaded = TRUE
    /\ UiInit

SelectNext ==
    \/ \E pt \in ClickPoints : onCanvasPointerDown(0, pt[1], pt[2])
    \/ \E ctrl \in BOOLEAN, shift \in BOOLEAN :
          onCanvasPointerUp(0, ctrl, shift, startXRef, startYRef)
    \/ \E i \in 0..(MaxSelectItems - 1), ctrl \in BOOLEAN, shift \in BOOLEAN :
          overlayItemClick(i, ctrl, shift)
    \/ toggleEditMode
    \/ onEscapeKey
    \/ cancelEdit
    \/ deleteSelected
    \/ openNoteModal
    \/ closeNoteModal
    \/ addToNoteDone
    \/ \E opt \in SortOptions : changeSort(opt)
    \/ toggleShowVideos
    \/ \E i \in 0..(MaxSelectItems - 1) : openLightbox(i)
    \/ closeLightbox
    \/ \E i \in 0..(MaxSelectItems - 1) : lightboxAddToNote(i)

SelectSpec == SelectInit /\ [][SelectNext]_vars

----------------------------------------------------------------------------
(* Claims about the selection, checked under SelectSpec.                   *)

\* The step is a click with the primary button that hit an item.
ItemClicked ==
    /\ lastClick'.seq # lastClick.seq
    /\ lastClick'.item >= 0
    /\ lastClick'.item < Len(filteredImages)

\* C15: with an anchor set by an earlier click, a shift-click on index i in
\* edit mode makes the selection exactly the paths at the indices
\* min(anchor, i)..max(anchor, i) of the current filtered order, and a change
\* of the sort order leaves the selection as it is.
C15_ShiftClickSelectsRange ==
    [][ /\ ( /\ ItemClicked
             /\ lastClick'.shift /\ ~lastClick'.ctrl
             /\ isEditMode
             /\ lastSelectedIndexRef >= 0 )
           => LET a == lastSelectedIndexRef
                  i == lastClick'.item
              IN  selection' =
                    { filteredImages[k + 1] :
                        k \in {j \in 0..(Len(filteredImages) - 1) :
                                  /\ (a <= j /\ j <= i) \/ (i <= j /\ j <= a)} }
        /\ (sortBy' # sortBy) => (selection' = selection) ]_vars

\* A range picked in the default order (indices 0..1) is still selected after
\* the change to the order by name, where it is no longer contiguous.
C15_Witness ==
    /\ isEditMode
    /\ sortBy = "name-asc"
    /\ filteredImages = <<"a.png", "b.jpg", "v.mp4">>
    /\ lastClick.shift /\ ~lastClick.ctrl /\ lastClick.item = 1
    /\ lastSelectedIndexRef = 0
    /\ selection = {"a.png", "v.mp4"}

\* C16: a Ctrl+click on an item, in or out of edit mode, makes the selection
\* exactly that item's path, turns edit mode on and makes the clicked index
\* the anchor.
C16_CtrlClickStartsSelection ==
    [][ (ItemClicked /\ lastClick'.ctrl)
           => /\ selection' = {filteredImages[lastClick'.item + 1]}
              /\ isEditMode'
              /\ lastSelectedIndexRef' = lastClick'.item ]_vars

\* C17: in edit mode a Ctrl+click on an item toggles it: the item joins the
\* selection if it was not in it and leaves it otherwise, and every other
\* selected item stays selected.
C17_CtrlClickToggles ==
    [][ (ItemClicked /\ lastClick'.ctrl /\ ~lastClick'.shift /\ isEditMode)
           => LET p == filteredImages[lastClick'.item + 1]
              IN  selection' = IF p \in selection THEN selection \ {p}
                               ELSE selection \cup {p} ]_vars

\* C18: every step that takes edit mode from on to off leaves the selection
\* empty.
C18_ExitClearsSelection ==
    [][ (isEditMode /\ ~isEditMode') => (selection' = {}) ]_vars

\* Edit mode is off again after files were selected and deleted in it.
C18_Witness ==
    /\ ~isEditMode
    /\ Len(filteredImages) < MaxSelectItems
    /\ lastSelectedIndexRef >= 0
    /\ selection = {}

----------------------------------------------------------------------------
(* The slideshow button and its countdown.                                 *)

SLIDESHOW_OPTIONS == <<5, 10, 30, 60, 600, 0>>

\* indexOf, 0-based, -1 if the value is not an option.
OptionIndex(sec) ==
    IF \E k \in DOMAIN SLIDESHOW_OPTIONS : SLIDESHOW_OPTIONS[k] = sec
    THEN (CHOOSE k \in DOMAIN SLIDESHOW_OPTIONS : SLIDESHOW_OPTIONS[k] = sec) - 1
    ELSE -1

\* Mutant of NextSlideshowOption: the cycle stops at its last option.
NextSlideshowOption_NoWrap(sec) ==
    LET idx == OptionIndex(sec)
    IN  SLIDESHOW_OPTIONS[Min(idx + 1, Len(SLIDESHOW_OPTIONS) - 1) + 1]

\* SLIDESHOW_OPTIONS[idx < 0 ? 0 : (idx + 1) % length]
NextSlideshowOption(sec) ==
    LET idx     == OptionIndex(sec)
        nextIdx == IF idx < 0 THEN 0 ELSE (idx + 1) % Len(SLIDESHOW_OPTIONS)
    IN  SLIDESHOW_OPTIONS[nextIdx + 1]

MaxCycleClicks == 7

\* cycleSlideshowDuration, a click on the slideshow button: the handler clears
\* the countdown's interval, stores the next option and sets the countdown.
\* The countdown effect depends on the countdown only: it runs again, and
\* arms a new interval, when the countdown's value has changed.
cycleSlideshowDuration ==
    /\ ~isSlideshowActive
    /\ cycleClicks < MaxCycleClicks
    /\ cycleClicks' = cycleClicks + 1
    /\ countdownCancelled' = FALSE
    /\ LET next == NextSlideshowOption(settings.slideshowIntervalSec)
           c    == IF next > 0 THEN 5 ELSE 0
       IN  /\ settings' = [settings EXCEPT !.slideshowIntervalSec = next]
           /\ slideshowCountdown' = c
           /\ countdownIntervalRef' = IF c # slideshowCountdown /\ c > 0
                                      THEN "armed" ELSE "null"
    /\ saveState(TRUE)
    /\ UNCHANGED <<filterVars, bridgeVars, stateLoaded, pinchZoomRef, pointerVars, selectVars, lastClick,
                   mediaVars, scrollVars, isSlideshowActive, slideshowIndex,
                   loaderVars>>

\* The countdown's interval fires, one second after the effect armed it.
countdownTick ==
    /\ countdownIntervalRef = "armed"
    /\ IF slideshowCountdown <= 1
       THEN /\ slideshowCountdown' = 0
            /\ isSlideshowActive' = TRUE
            /\ slideshowIndex' = 0
            /\ targetScroll' = FirstSlideScroll(layoutData)
       ELSE /\ slideshowCountdown' = slideshowCountdown - 1
            /\ UNCHANGED <<isSlideshowActive, slideshowIndex, targetScroll>>
    /\ countdownIntervalRef' = IF slideshowCountdown' > 0 THEN "armed" ELSE "null"
    /\ UNCHANGED <<filterVars, bridgeVars, stateLoaded, pinchZoomRef, pointerVars, selectVars, lastClick,
                   persistVars, cycleClicks, countdownCancelled, mediaVars,
                   settings, scrollRef, targetScrollX,
                   scrollRefX, isDraggingRef, loaderVars>>

\* Intervals the persisted settings of the gallery may hold at mount: off, or
\* a value that is not an option of the button.
SavedIntervals == {0, 7}

\* A mounted gallery of one or two items with its slideshow off or at a
\* persisted interval.
SlideshowInit ==
    /\ \E n \in 1..2 : filteredImages = SubSeq(Catalogue, 1, n)
    /\ \E sec \in SavedIntervals :
          settings = [DEFAULT_SETTINGS EXCEPT !.slideshowIntervalSec = sec]
    /\ containerWidth = 320
    /\ containerHeight = 400
    /\ cache = [p \in Paths |-> "absent"]
    /\ layoutVersion = 0
    /\ LET r == ComputeLayout(filteredImages, settings, cache, containerWidth,
                              containerHeight)
       IN  layoutData = r.layout /\ layoutRows = r.rows
    /\ targetScroll = 0
    /\ scrollRef = 0
    /\ targetScrollX = 0
    /\ scrollRefX = 0
    /\ isDraggingRef = FALSE
    /\ isSlideshowActive = FALSE
    /\ slideshowIndex = 0
    /\ preloadTimers = {}
    /\ seenPaths = {}
    /\ LoaderInit
    /\ workerCtorOk
    /\ stateLoaded = TRUE
    /\ UiInit

\* The wheel turns of a slideshow session (with the control key held): one
\* notch, zooming in.
SlideshowWheelDeltas == {-100}

SlideshowNext ==
    \/ cycleSlideshowDuration
    \/ countdownTick
    \/ onCanvasPointerDown(0, 100, 100)
    \/ onCanvasPointerUp(0, FALSE, FALSE, 100, 100)
    \/ StartSlideshow
    \/ \E r \in 0..1 : SlideshowAdvance(r)
    \/ \E deltaY \in SlideshowWheelDeltas : onWheelZoom(deltaY)
    \/ saveTimerFires

SlideshowSpec == SlideshowInit /\ [][SlideshowNext]_vars

\* C19: a click on the slideshow button moves the interval to its successor
\* in the cycle 5, 10, 30, 60, 600, 0 (off), 5, and to 5 from a value that is
\* not in the cycle.
C19_ButtonCyclesInterval ==
    [][ (cycleClicks' # cycleClicks)
           => LET sec == settings.slideshowIntervalSec
              IN  settings'.slideshowIntervalSec =
                    CASE sec = 5   -> 10
                      [] sec = 10  -> 30
                      [] sec = 30  -> 60
                      [] sec = 60  -> 600
                      [] sec = 600 -> 0
                      [] sec = 0   -> 5
                      [] OTHER     -> 5 ]_vars

\* Seven clicks from the persisted interval 7: 5, then the whole cycle back
\* to 5.
C19_Witness ==
    /\ cycleClicks = MaxCycleClicks
    /\ settings.slideshowIntervalSec = 5
    /\ slideshowCountdown = 5

\* C20: after a click on the slideshow button that leaves the interval on,
\* the countdown is 5 and its one-second timer runs, also when the click
\* falls into a running countdown at any value; between clicks the countdown
\* only goes down by one at a time, or to zero.
C20_ClickStartsCountdown ==
    [][ /\ (cycleClicks' # cycleClicks /\ settings'.slideshowIntervalSec > 0)
           => (slideshowCountdown' = 5 /\ countdownIntervalRef' = "armed")
        /\ (cycleClicks' = cycleClicks /\ slideshowCountdown' # slideshowCountdown)
           => (slideshowCountdown' \in {0, slideshowCountdown - 1}) ]_vars

----------------------------------------------------------------------------
(* Claims about the interrupted slideshow (SlideshowSpec).                 *)

\* The slideshow is idle and its interval is off, in memory and in the
\* settings written last.
SlideshowOff ==
    /\ ~isSlideshowActive
    /\ settings.slideshowIntervalSec = 0
    /\ savedIntervalSec = 0

\* C21: a click on the canvas while the slideshow is active leaves it idle
\* with the interval off in memory and in the persisted state, and the
\* slideshow stays idle and the interval off, in both, until the user clicks
\* the slideshow button again.
C21_ClickTurnsSlideshowOff ==
    [][ /\ (isSlideshowActive /\ ~isSlideshowActive') => SlideshowOff'
        /\ (SlideshowOff /\ cycleClicks' = cycleClicks) => SlideshowOff' ]_vars

\* The click itself turns the slideshow off, in memory and in the persisted
\* state.
C21_ClickStepTurnsOff ==
    [][ (isSlideshowActive /\ ~isSlideshowActive') => SlideshowOff' ]_vars

\* After the click the slideshow stays idle and the interval stays off in
\* memory until the slideshow button is clicked.
C21_IdleUntilSelected ==
    [][ (~isSlideshowActive /\ settings.slideshowIntervalSec = 0
         /\ cycleClicks' = cycleClicks)
        => (~isSlideshowActive' /\ settings'.slideshowIntervalSec = 0) ]_vars

----------------------------------------------------------------------------
(* The loader with several requests in flight (LoaderSpec).                *)

\* Largest number of loadImage calls of a session of LoaderSpec.
MaxLoaderLoads == 2

\* A gallery asks for the image of path p: cache.set(path, 'loading') and
\* loadImage(url, path, onLoad, onError, api.getWorkerUrl()). The galleries of
\* a process share the loader, and a request for a path may be made while an
\* earlier one for it is in flight.
LoadCall(p) ==
    /\ Len(loads) < MaxLoaderLoads
    /\ Commit(StartLoad(Cur, p, "draw", TRUE))
    /\ UNCHANGED <<uiVars, filteredImages, settings, containerWidth, containerHeight,
                   scrollVars, isSlideshowActive, slideshowIndex, preloadTimers,
                   seenPaths, workerCtorOk, restarts>>

\* A mounted gallery of the two images, nothing loaded yet.
LoaderSessionInit ==
    /\ filteredImages = <<"a.png", "b.jpg">>
    /\ settings = DEFAULT_SETTINGS
    /\ containerWidth = 320
    /\ containerHeight = 200
    /\ cache = [p \in Paths |-> "absent"]
    /\ layoutVersion = 0
    /\ LET r == ComputeLayout(filteredImages, settings, cache, containerWidth,
                              containerHeight)
       IN  layoutData = r.layout /\ layoutRows = r.rows
    /\ targetScroll = 0
    /\ scrollRef = 0
    /\ targetScrollX = 0
    /\ scrollRefX = 0
    /\ isDraggingRef = FALSE
    /\ isSlideshowActive = FALSE
    /\ slideshowIndex = 0
    /\ preloadTimers = {}
    /\ seenPaths = {}
    /\ LoaderInit
    /\ workerCtorOk
    /\ stateLoaded = TRUE
    /\ UiInit

\* The reads of the store of a session of LoaderSpec settle, its fetches bring
\* bytes that decode, or fail, and the store takes what is written to it.
LoaderFetchOutcomes == {"good", "fail"}

LoaderNext ==
    \/ \E p \in LoaderPaths : LoadCall(p)
    \/ \E i \in 1..MaxLoaderLoads : WorkerGet(i, "settle")
    \/ \E i \in 1..MaxLoaderLoads, res \in LoaderFetchOutcomes :
          WorkerFetch(i, res, res # "fail")
    \/ \E i \in 1..MaxLoaderLoads : WorkerDecode(i)
    \/ \E i \in 1..MaxLoaderLoads : OnWorkerMessage(i)
    \/ \E i \in 1..MaxLoaderLoads : WorkerTimeout(i)
    \/ OnWorkerError
    \/ \E i \in 1..MaxLoaderLoads : FallbackGet(i, "settle")
    \/ \E i \in 1..MaxLoaderLoads, res \in LoaderFetchOutcomes :
          FallbackFetch(i, res, res # "fail")
    \/ \E i \in 1..MaxLoaderLoads : BlobImageSettled(i)
    \/ \E i \in 1..MaxLoaderLoads, ok \in BOOLEAN : UrlImageSettled(i, ok)
    \/ Tick

LoaderSpec == LoaderSessionInit /\ [][LoaderNext]_vars

----------------------------------------------------------------------------
(* Claims about the loader (LoaderSpec, Spec).                             *)

\* The worker's messages to the main thread.
WorkerReplies == {"msg_bitmap", "msg_error", "msg_bare"}

\* The step hands the reply to request i to worker.onmessage.
ReplyArrives(i) ==
    /\ i \in DOMAIN loads
    /\ i \in DOMAIN loads'
    /\ loads[i].w \in WorkerReplies
    /\ loads'[i].w = "done"

\* C22: a worker reply for a request that is no longer pending (timed out,
\* answered, or cleared by a worker error) invokes no callback and changes no
\* state; request ids are never reused, and a reply invokes the callbacks of
\* the request it answers only, also with two requests of one path in flight.
C22_RepliesMatchedById ==
    /\ [](\A i, j \in DOMAIN loads :
            /\ (i # j /\ loads[i].id # 0) => loads[i].id # loads[j].id
            /\ loads[i].replyOf \in {0, i})
    /\ [][\A i \in 1..MaxLoaderLoads :
            (ReplyArrives(i) /\ loads[i].st # "worker")
            => /\ loads' = [loads EXCEPT ![i].w = "done"]
               /\ UNCHANGED <<cache, layoutVersion, layoutData, store, worker,
                              nextId, succeeded>>]_vars

\* Two requests for one path were in flight; the first timed out and its
\* late reply was dropped, the second was answered by its own reply.
C22_Witness ==
    /\ Len(loads) = 2
    /\ loads[1].path = loads[2].path
    /\ loads[1].via = "timeout"
    /\ loads[1].w = "done"
    /\ ~loads[1].replied
    /\ loads[2].replyOf = 2
    /\ loads[2].id = 2

\* C23: when the worker reports an error, every request pending at that
\* moment is handed to the main-thread fallback, once, and no request is
\* pending afterwards; no request is handed to the fallback a second time,
\* whatever fires later.
C23_WorkerErrorFailsEachPendingOnce ==
    /\ [](\A i \in DOMAIN loads : loads[i].fbCalls <= 1)
    /\ [][(worker = "live" /\ worker' = "null")
          => \A i \in DOMAIN loads :
                /\ i \in DOMAIN loads'
                /\ loads'[i].st # "worker"
                /\ loads[i].st = "worker"
                   => /\ loads'[i].st = "get"
                      /\ loads'[i].via = "workererror"
                      /\ loads'[i].fbCalls = loads[i].fbCalls + 1
                /\ loads[i].st # "worker" => loads'[i] = loads[i]]_vars

\* Two requests were pending when the worker reported an error; both went
\* through the fallback, once each, and ended with a callback.
C23_Witness ==
    /\ Len(loads) = 2
    /\ \A i \in DOMAIN loads :
          /\ loads[i].via = "workererror"
          /\ loads[i].fbCalls = 1
          /\ loads[i].st = "end"
          /\ loads[i].nLoad + loads[i].nErr = 1

\* C24: once the worker has reported an error (the sessions of LoaderSpec
\* start with a live worker, which only worker.onerror sets to null), no
\* later loadImage call creates a worker or posts a request to one.
C24_NoWorkerAfterError ==
    [][worker = "null" => (worker' = "null" /\ nextId' = nextId)]_vars

\* C25: when the decode of a blob fails in the main-thread fallback, the load
\* goes on with the url assigned to an image element, and its failure
\* callback is not called at that point.
C25_BlobDecodeFailureFallsBackToUrl ==
    [][\A i \in DOMAIN loads :
          (/\ i \in DOMAIN loads'
           /\ loads[i].st = "blob"
           /\ loads[i].blob = "bad"
           /\ loads'[i].st # "blob")
          => (loads'[i].st = "url" /\ loads'[i].nErr = loads[i].nErr)]_vars

\* The store's entry for the path of load r.
Stored(r) == store[StoreKey(r.path)]

\* C26: in the main-thread fallback the store is read first; the url is
\* fetched only after a read that settled without a blob, a blob that was
\* found is decoded, the store is written only with the blob of a fetch that
\* returned an OK response, and the decode of a fetched blob starts only once
\* the blob has been handed to the store write.
C26_FallbackReadsStoreFirst ==
    [][\A i \in DOMAIN loads :
          i \in DOMAIN loads' =>
            /\ (loads'[i].st = "fetch" /\ loads[i].st # "fetch")
               => (loads[i].st = "get" /\ Stored(loads[i]) = "none")
            /\ (loads[i].st = "get" /\ loads'[i].st # "get"
                /\ Stored(loads[i]) # "none" /\ ~loads'[i].getFail)
               => (loads'[i].st = "blob" /\ loads'[i].blob = Stored(loads[i]))
            /\ (loads'[i].wrote # loads[i].wrote /\ getMediaType(loads[i].path) = "image")
               => (loads[i].st = "fetch" /\ loads'[i].blob \in BlobKinds)
            /\ (loads[i].st = "fetch" /\ loads'[i].st = "blob")
               => loads'[i].wrote # "none"]_vars

\* A load that never went to the worker missed the store, fetched the url,
\* wrote the blob to the store and then decoded it.
C26_Witness ==
    \E i \in DOMAIN loads :
        /\ loads[i].id = 0
        /\ loads[i].via = "noworker"
        /\ loads[i].fetched
        /\ loads[i].wrote = "ok"
        /\ loads[i].st = "end"
        /\ loads[i].nLoad = 1
        /\ Stored(loads[i]) = "good"

\* C27: a rejected write to the store does not fail a load: after it the
\* worker decodes the blob it fetched, the main thread decodes the blob it
\* fetched, and the thumbnail capture calls the success callback, as after a
\* write that succeeded.
C27_StoreWriteFailureSwallowed ==
    [][\A i \in DOMAIN loads :
          i \in DOMAIN loads' =>
            /\ (loads[i].w = "fetch" /\ loads'[i].w # "fetch"
                /\ loads'[i].wwrote = "failed")
               => (loads'[i].w = "decode" /\ loads'[i].wblob \in BlobKinds)
            /\ (loads[i].st = "fetch" /\ loads'[i].st # "fetch"
                /\ loads'[i].wrote = "failed")
               => (loads'[i].st = "blob" /\ loads'[i].blob \in BlobKinds)
            /\ (loads[i].st = "vframe" /\ loads'[i].st # "vframe"
                /\ loads'[i].wrote = "failed")
               => (loads'[i].nLoad = loads[i].nLoad + 1
                   /\ loads'[i].nErr = loads[i].nErr
                   /\ cache'[loads[i].path] = "ready")]_vars

\* A load whose store write was rejected ended with the success callback and
\* nothing in the store.
C27_Witness ==
    \E i \in DOMAIN loads :
        /\ "failed" \in {loads[i].wrote, loads[i].wwrote}
        /\ "ok" \notin {loads[i].wrote, loads[i].wwrote}
        /\ loads[i].st = "end"
        /\ loads[i].nLoad = 1
        /\ loads[i].nErr = 0
        /\ Stored(loads[i]) = "none"
        /\ cache[loads[i].path] = "ready"

\* The calls of a success callback in the step.
SuccessCalls ==
    {i \in DOMAIN loads : i \in DOMAIN loads' /\ loads'[i].nLoad > loads[i].nLoad}

\* C28: while a gallery is mounted its layout version never decreases; it
\* goes up by one with every call of a success callback and is left as it is
\* by every other step: a failure callback, a request that sets an entry to
\* pending, a frame, an input event.
C28_LayoutVersionCountsLoads ==
    [][restarts' = restarts
       => /\ layoutVersion' = layoutVersion + Cardinality(SuccessCalls)
          /\ \A i \in SuccessCalls : loads'[i].nLoad = loads[i].nLoad + 1]_vars

\* One load of the session has succeeded and one has failed; the version is 1.
C28_Witness ==
    /\ layoutVersion = 1
    /\ restarts = 0
    /\ \E i \in DOMAIN loads : loads[i].nLoad = 1
    /\ \E i \in DOMAIN loads : loads[i].nErr > 0 /\ loads[i].nLoad = 0

----------------------------------------------------------------------------
(* Claims about the aspect ratios of the justified modes (LayoutSpec).     *)

\* The aspect ratio the claim gives an item: that of its decoded bitmap when
\* there is one (of a usable size), else 1.5 for an image and 16:9 for a video.
ClaimedAspect(p, c) ==
    IF c[p] = "ready" /\ Dims(p).w # 0 /\ Dims(p).h # 0
    THEN Rat(Dims(p).w, Dims(p).h)
    ELSE IF getMediaType(p) = "video" THEN Rat(16, 9) ELSE Rat(3, 2)

C30_NotActiveDuringCountdown ==
    ~(isSlideshowActive /\ slideshowCountdown > 0)

\* The part of C30 about the index: the end of a countdown during an active
\* slideshow leaves the slide index as it is.
C30_IndexNotResetWhileActive ==
    [][(isSlideshowActive /\ isSlideshowActive'
        /\ slideshowCountdown > 0 /\ slideshowCountdown' = 0)
       => slideshowIndex' = slideshowIndex]_vars

----------------------------------------------------------------------------
\* The index an advance tick that draws r would move the slideshow to.
TickTarget(r) == NextSlide(r, slideshowIndex, Len(layoutData))

\* C31: every advance tick of an active slideshow over n items leaves the
\* slideshow index in 0..n-1; with two or more items the index differs from
\* the one before the tick, whatever value is drawn, and with one item it is 0
\* (in every state where a tick can fire, for every draw; and in every step
\* a tick takes)
C31_AdvancePicksAnotherItem ==
    /\ [](\A r \in 0..(Len(layoutData) - 1) :
            ENABLED SlideshowAdvance(r) =>
               LET n == Len(layoutData)
               IN  /\ TickTarget(r) \in 0..(n - 1)
                   /\ n >= 2 => TickTarget(r) # slideshowIndex
                   /\ n = 1 => TickTarget(r) = 0)
    /\ [][(\E r \in 0..1 : SlideshowAdvance(r)) =>
             /\ slideshowIndex' \in 0..(Len(layoutData) - 1)
             /\ \E r \in 0..1 : slideshowIndex' = TickTarget(r)]_vars

\* The slideshow of two items has advanced to the second one.
C31_Witness ==
    /\ isSlideshowActive
    /\ Len(layoutData) = 2
    /\ slideshowIndex = 1

----------------------------------------------------------------------------
\* C32: every call of loadImage or loadVideoThumbnail invokes at most one
\* callback in total: onLoad and onError together are called at most once
C32_AtMostOneCallback ==
    \A i \in DOMAIN loads : loads[i].nLoad + loads[i].nErr <= 1

----------------------------------------------------------------------------
\* The transitions of a decode cache entry within one step.
CacheTransitions ==
    {<<"absent", "loading">>, <<"loading", "ready">>, <<"loading", "absent">>}

\* C33: while a gallery is mounted the decode cache entry of a path only goes
\* from absent to pending, from pending to ready and from pending to absent;
\* a ready entry is never removed, never set back to pending and never
\* replaced by the image of another call
C33_CacheEntryTransitions ==
    [][restarts' = restarts
       => /\ \A p \in Paths :
                cache'[p] = cache[p] \/ <<cache[p], cache'[p]>> \in CacheTransitions
          /\ \A i \in SuccessCalls : cache[loads[i].path] # "ready"]_vars

----------------------------------------------------------------------------
\* The rect lies horizontally inside the container, a gap away from its edges.
InsideContainer(rc) ==
    /\ RLe(RInt(GAP), rc.x)
    /\ RLe(RAdd(rc.x, rc.w), RInt(containerWidth - GAP))

\* C34: in the square and the justified mode every rect of the layout lies
\* horizontally inside the container (x >= gap and x + w <= width - gap), the
\* rects of the last justified row included
C34_RectsInsideContainer ==
    settings.layout \in {"square", "justified"} =>
        \A k \in DOMAIN layoutData : InsideContainer(layoutData[k])

\* The part of C34 about the square mode, and about the justified rows that
\* were closed and rescaled.
C34_SquareAndClosedRowsInside ==
    /\ settings.layout = "square" =>
          \A k \in DOMAIN layoutData : InsideContainer(layoutData[k])
    /\ settings.layout = "justified" =>
          \A r \in 1..(Len(layoutRows) - 1) :
             \A j \in DOMAIN layoutRows[r] :
                InsideContainer(layoutData[layoutRows[r][j]])

----------------------------------------------------------------------------
\* C35: for a container width above 0, a zoom from ZOOM_MIN to ZOOM_MAX, any
\* layout mode and a non-empty item sequence, the layout holds one rect per
\* item and every rect has a width and a height above 0
C35_OnePositiveRectPerItem ==
    (/\ containerWidth > 0
     /\ settings.zoom \in ZOOM_MIN..ZOOM_MAX
     /\ filteredImages # <<>>)
    => /\ Len(layoutData) = Len(filteredImages)
       /\ \A k \in DOMAIN layoutData :
             /\ RLt(RInt(0), layoutData[k].w)
             /\ RLt(RInt(0), layoutData[k].h)

\* The part of C35 about the number of rects, and about their sizes in a
\* container wider than two gaps.
C35_OneRectPerItem ==
    (containerWidth > 0 /\ filteredImages # <<>>)
    => /\ Len(layoutData) = Len(filteredImages)
       /\ (containerWidth > 2 * GAP /\ settings.zoom \in ZOOM_MIN..ZOOM_MAX)
             => \A k \in DOMAIN layoutData :
                   /\ RLt(RInt(0), layoutData[k].w)
                   /\ RLt(RInt(0), layoutData[k].h)

----------------------------------------------------------------------------
\* C36: in every reachable state a non-empty selection implies that edit
\* mode is on
C36_SelectionOnlyInEditMode == selection # {} => isEditMode

----------------------------------------------------------------------------
\* C37: in every reachable state every path of the selection belongs to an
\* item of the current filtered sequence, also after a change of a filter
\* made while items are selected, so the bulk delete trashes shown items only
C37_SelectionWithinFiltered == selection \subseteq Range(filteredImages)

\* The part of C37 about the bulk delete: every file it removes from the
\* vault was shown in the gallery.
C37_DeleteTrashesShownOnly ==
    [][allImages' \subseteq allImages
       /\ (allImages \ allImages') \subseteq Range(filteredImages)]_vars

----------------------------------------------------------------------------
\* C38: the immediate save of a discrete setting change passes the new value
\* of the changed setting to saveWidgetState: after a click on the slideshow
\* button the persisted interval is the interval of the new settings
C38_ImmediateSaveWritesNewValue ==
    [][cycleClicks' # cycleClicks
       => savedIntervalSec' = settings'.slideshowIntervalSec]_vars

\* The second part of C38: with no debounced save pending, the settings
\* persisted last equal the settings in memory.
C38_PersistedEqualsMemory ==
    saveTimeoutRef = <<>> => savedIntervalSec = settings.slideshowIntervalSec

----------------------------------------------------------------------------
\* C39: a pointer click on the canvas during the countdown cancels the
\* countdown, and from then until the user selects a duration again no
\* countdown runs and the slideshow is not active
C39_CancelledCountdownStaysIdle ==
    countdownCancelled => (slideshowCountdown = 0 /\ ~isSlideshowActive)

\* The first part of C39: the step of the click leaves no countdown running.
C39_ClickCancelsCountdown ==
    [][(countdownCancelled' /\ ~countdownCancelled)
       => (slideshowCountdown > 0 /\ slideshowCountdown' = 0
           /\ countdownIntervalRef' = "null")]_vars

----------------------------------------------------------------------------
(* The plugin's stored data and its writers (BridgeSpec).  The calls are   *)
(* modelled on their own: each writes a value of its own, its number.      *)

\* Largest number of save calls of a session.
MaxSaveCalls == 3

\* What the calls of the bridge leave alone.
nonBridgeVars == <<galleryVars, loaderVars, filterVars, stateLoaded, pinchZoomRef,
                   pointerVars, selectVars, slideVars, lastClick, persistVars>>

\* A call for the target (an instance id or "settings") has not finished.
InFlight(target) ==
    \E i \in DOMAIN saveCalls :
        saveCalls[i].target = target /\ saveCalls[i].st # "done"

NewSaveCall(target) ==
    [target |-> target, data |-> Len(saveCalls) + 1, st |-> "loading",
     out |-> pluginData]

\* saveWidgetState(id, data) is called: plugin.loadData() is awaited.
saveWidgetState(id) ==
    /\ Len(saveCalls) < MaxSaveCalls
    /\ ~InFlight(id)
    /\ saveCalls' = Append(saveCalls, NewSaveCall(id))
    /\ UNCHANGED <<pluginData, pluginSettings, nonBridgeVars>>

\* The settings tab: this.plugin.settings is changed and saveSettings() is
\* called, which awaits this.loadData().
saveSettings ==
    /\ Len(saveCalls) < MaxSaveCalls
    /\ ~InFlight("settings")
    /\ pluginSettings' = Len(saveCalls) + 1
    /\ saveCalls' = Append(saveCalls, NewSaveCall("settings"))
    /\ UNCHANGED <<pluginData, nonBridgeVars>>

\* The data a call hands to saveData, from the stored data it has read.
Merged(call, stored) ==
    IF call.target = "settings"
    THEN [stored EXCEPT !.settings = pluginSettings]
    ELSE [stored EXCEPT !.widgetState[call.target] = call.data]

\* loadData() of a call resolves with the stored data; the call merges its
\* value into them and hands the result to saveData, which it awaits.
LoadDataResolves(i) ==
    /\ i \in DOMAIN saveCalls
    /\ saveCalls[i].st = "loading"
    /\ saveCalls' = [saveCalls EXCEPT ![i].st = "saving",
                                      ![i].out = Merged(saveCalls[i], pluginData)]
    /\ UNCHANGED <<pluginData, pluginSettings, nonBridgeVars>>

\* saveData(...) of a call replaces the stored data.
SaveDataLands(i) ==
    /\ i \in DOMAIN saveCalls
    /\ saveCalls[i].st = "saving"
    /\ pluginData' = saveCalls[i].out
    /\ saveCalls' = [saveCalls EXCEPT ![i].st = "done"]
    /\ UNCHANGED <<pluginSettings, nonBridgeVars>>

BridgeNext ==
    \/ \E id \in WidgetIds : saveWidgetState(id)
    \/ saveSettings
    \/ \E i \in 1..MaxSaveCalls : LoadDataResolves(i)
    \/ \E i \in 1..MaxSaveCalls : SaveDataLands(i)

\* A mounted gallery next to a second widget instance and the settings tab.
BridgeSpec == SlideshowInit /\ [][BridgeNext]_vars

\* Every call has finished.
SavesSettled == \A i \in DOMAIN saveCalls : saveCalls[i].st = "done"

\* The last call for the target, 0 if there is none.
LastCallFor(target) ==
    LET S == {i \in DOMAIN saveCalls : saveCalls[i].target = target}
    IN  IF S = {} THEN 0 ELSE CHOOSE i \in S : \A j \in S : j <= i

StoredValue(target) ==
    IF target = "settings" THEN pluginData.settings
    ELSE pluginData.widgetState[target]

\* C40: no stored value is lost by interleaving: once the calls have finished,
\* the stored data hold, for every instance id and for the settings, the
\* value of the last call that wrote it, also when calls for different
\* targets overlapped at their awaits
C40_NoSaveLost ==
    SavesSettled =>
        \A target \in WidgetIds \cup {"settings"} :
            LastCallFor(target) # 0
               => StoredValue(target) = saveCalls[LastCallFor(target)].data

=============================================================================
